---- MODULE Spec2Model ----
(***************************************************************************)
(* Discount-code lifecycle of mishmush-discount.                           *)
(*                                                                         *)
(* The issuance handler (api/generate-discount.js) is modelled as one      *)
(* process per invocation; every await on the Catalog Service is one       *)
(* atomic step (the request is served at one instant, the code up to the   *)
(* next await runs with it).  The Catalog Service is the only shared       *)
(* state: the discount codes of the price rule and the customers'          *)
(* metafields.                                                             *)
(*                                                                         *)
(* Text is modelled as sequences of one-character strings, with one        *)
(* letter standing for each fixed, digit-free piece of text:               *)
(*   "G"  gid://shopify/Customer/          "S"  "Shopify API "             *)
(*   "T"  a status text,  "Q"  "GraphQL errors: ",                         *)
(*   "U"  "metafieldsSet userErrors: ",  "X"  the exhausted-retries text,  *)
(*   "M"  the missing-customer-id text.                                    *)
(*                                                                         *)
(* The maintenance handler (api/maintenance.js) is modelled as one run:    *)
(* every await on the store, on the timer of withRetry and on the Slack    *)
(* webhook is one atomic step.  Its letters:                               *)
(*   "B"  https://${SHOP}/admin/api/${API_VERSION}                         *)
(*   "P"  the path of the code listing,  "R"  the words "rate limit",      *)
(*   "H"  "Bearer ",  "N"  "Use GET",  "Z"  "Unauthorized",                *)
(*   "E"  the missing-env-vars text,  "F"  a failed request to the sink,   *)
(*   "J"  "Unexpected end of JSON input".                                  *)
(* The issuance endpoint's entry (method, env vars, body, signature) has   *)
(* its own letters: "A" "Method not allowed", "I" "Invalid signature",     *)
(* "Y" the missing-payload text, "6" base64 of the text after it.          *)
(*                                                                         *)
(* The notify-interest handler (api/notify-interest.js, in its webhook and *)
(* its storefront edition) is one invocation: the variant query and the    *)
(* send to the mail service are one atomic step each.  Its letters:        *)
(*   "V"  the tag prefix "notify-variant-",                                *)
(*   "W"  gid://shopify/ProductVariant/                                    *)
(*                                                                         *)
(* Time is counted in days.  The specifications:                           *)
(*   Spec, SpecReliable  issuance, with and without store failures         *)
(*   SpecSweep      one maintenance run, a bounded number of failures      *)
(*   SpecLifecycle  issuance beside a maintenance run, both entered        *)
(*                  through their triggers, one price rule                 *)
(*   SpecStorm      one maintenance run against a store that may fail      *)
(*                  every request, every call answered in the end          *)
(*   SpecNotify     one notify-interest invocation                         *)
(*   SpecAgeing     issuance for the known customer beside a maintenance   *)
(*                  run, while codes pass the retention threshold          *)
(*   SpecOverlap    two maintenance runs of the deployment, overlapping    *)
(***************************************************************************)
EXTENDS Integers, Sequences, FiniteSets, TLC

\* ----- bounds of the model -----
\* requests served in one behaviour
MaxInvocations == 2
\* transient failures met in one behaviour
MaxFaults == 1
\* distinct values the random suffix takes
NumCodes == 2
\* digits of the longest customer id normalized
MaxIdLen == 2

\* the handler instances that can be serving a request at the same time
Invocations == {1, 2}

NoMeta == "<absent>"
Null == "<null>"
NoError == <<>>

Digits == {"0", "1", "2", "3", "4", "5", "6", "7", "8", "9"}

\* ----- text helpers -----
\* String.prototype.includes
Includes(hay, needle) ==
  \E k \in 1..(Len(hay) - Len(needle) + 1) :
     SubSeq(hay, k, k + Len(needle) - 1) = needle

T404 == <<"4", "0", "4">>
T422 == <<"4", "2", "2">>
T429 == <<"4", "2", "9">>
T500 == <<"5", "0", "0">>

\* ----- utils -----
\* length of the run of digits of s that starts at position k
RECURSIVE DigitRun(_, _)
DigitRun(s, k) ==
  IF k <= Len(s) /\ s[k] \in Digits THEN 1 + DigitRun(s, k + 1) ELSE 0

\* asString.match(/gid:\/\/shopify\/Customer\/(\d+)/): positions of "G"
\* followed by at least one digit
MatchStarts(s) == {k \in 1..Len(s) : s[k] = "G" /\ DigitRun(s, k + 1) > 0}

\* normalizeCustomerIds with the namespaced form kept whole as the numeric id
normalizeCustomerIdsKeepsGid(rawCustomerId) ==
  LET asString == rawCustomerId
  IN IF MatchStarts(asString) # {}
       THEN [numericId |-> asString, gid |-> asString]
       ELSE [numericId |-> asString, gid |-> <<"G">> \o asString]

normalizeCustomerIds(rawCustomerId) ==
  LET asString == rawCustomerId
      starts == MatchStarts(asString)
      k == CHOOSE m \in starts : \A n \in starts : m <= n
  IN IF starts # {}
       THEN [numericId |-> SubSeq(asString, k + 1, k + DigitRun(asString, k + 1)),
             gid |-> asString]
       ELSE [numericId |-> asString, gid |-> <<"G">> \o asString]

\* the code drawn for the random suffix r: fixed prefix, upper-cased suffix
randomCode(r) ==
  CASE r = 1 -> "MISHMUSH-A" [] r = 2 -> "MISHMUSH-B"
    [] r = 3 -> "MISHMUSH-C" [] OTHER -> "MISHMUSH-D"

Draws == 1..NumCodes

\* ----- the Catalog Service -----
\* customers the store knows, by numeric id
Customers == {<<"1">>}

\* customer ids an inbound event can carry: raw numeric, namespaced,
\* a customer the store does not know, and no id at all
RawIds == {<<"1">>, <<"G", "1">>, <<"3">>, <<>>}

\* response bodies of a failed call: free text that may quote numbers
Bodies == {<<>>, T404, T422}

Http(status, body) == [kind |-> "http", status |-> status, body |-> body]
\* transient failures any call can meet
Faults == {Http(T429, <<>>), Http(T500, T404), Http(T500, T422)}

\* the message of the Error a failed call throws
ErrorMessage(resp) ==
  <<"S">> \o resp.status \o <<"T", ":">> \o resp.body

VARIABLES
  catalog,    \* the discount codes registered under the price rule
  meta,       \* per known customer, its custom.welcome_* metafields
  inv,        \* per handler instance, the locals of the invocation it serves
  hist,       \* history: per handler instance, the calls its invocation made
  issued,     \* history: per known customer, the codes created on its behalf
  returned,   \* history: per known customer, the code the latest successful issuance returned
  started,    \* history: the number of requests received
  faults,     \* history: the number of transient failures met
  listing,    \* the discount codes of the price rule as the store lists them, in order
  clock,      \* the current time, in days
  run,        \* the locals of the maintenance run being served
  sweep,      \* history: the calls the maintenance run made
  traffic,    \* history, kept when switched on: every page request and wait of the run
  note,       \* the locals of the notify-interest invocation, and the calls it made
  rival       \* the locals of a second maintenance run of the same deployment

\* the state of issuance, and the state of maintenance
ivars == <<catalog, meta, inv, hist, issued, returned, started>>
svars == <<listing, clock, run, sweep, traffic>>
vars == <<catalog, meta, inv, hist, issued, returned, started, faults,
          listing, clock, run, sweep, traffic, note, rival>>

Metafield(key, value) == [namespace |-> "custom", key |-> key, value |-> value]

\* the metafields a customer carries, as GET /customers/{id}/metafields.json lists them
MetafieldsOf(c) ==
  SelectSeq(<<Metafield("welcome_discount_used", meta[c].used),
              Metafield("welcome_email_sent", meta[c].sent),
              Metafield("welcome_discount_code", meta[c].code)>>,
            LAMBDA m : m.value # NoMeta)

\* GET /customers/{numericId}/metafields.json as the store answers it
CatalogLookup(numericId) ==
  IF numericId \in Customers
    THEN [kind |-> "ok", metafields |-> MetafieldsOf(numericId)]
    ELSE Http(T404, <<>>)

\* POST /price_rules/{id}/discount_codes.json: codes are unique per rule
CatalogCreate(desiredCode) ==
  IF desiredCode \in catalog
    THEN Http(T422, <<>>)
    ELSE [kind |-> "ok", discount_code |-> [code |-> desiredCode]]

\* the customer a metafieldsSet ownerId names, <<>> when it names none
OwnerOf(gid) ==
  IF Len(gid) >= 2 /\ Head(gid) = "G" /\ Tail(gid) \in Customers
    THEN Tail(gid) ELSE <<>>

\* metafieldsSet as the store answers it
CatalogWrite(gid) ==
  IF OwnerOf(gid) # <<>> THEN [kind |-> "ok"] ELSE [kind |-> "userErrors"]

\* a GraphQL response that carries top-level errors
GqlErrors == [kind |-> "gqlErrors"]

\* a metafield value that is a code: present and not empty
IsCode(v) == v \notin {NoMeta, Null, ""}

\* the class of a response, as the store means it (by status, not by text)
ClassOf(resp) ==
  CASE resp.kind = "ok" -> "ok"
    [] resp.kind = "http" /\ resp.status = T404 -> "notFound"
    [] resp.kind = "http" /\ resp.status = T422 -> "conflict"
    [] resp.kind = "http" /\ resp.status = T429 -> "rateLimited"
    [] OTHER -> "generic"

\* ----- handler locals -----
NoResult == [status |-> 0, code |-> Null, reused |-> FALSE, error |-> NoError]
Success(code, reused) ==
  [status |-> 200, code |-> code, reused |-> reused, error |-> NoError]
Failure(status, msg) ==
  [status |-> status, code |-> Null, reused |-> FALSE, error |-> msg]

MissingId == <<"M">>
Exhausted == <<"X">>

\* pc: where the handler is; customerId, existing, i, created: its locals;
\* result: the response it sent
IdleInvocation ==
  [pc |-> "idle", customerId |-> <<>>, existing |-> Null, i |-> 0,
   created |-> Null, result |-> NoResult]

\* the calls of one invocation, as the store saw them:
\*   customer    the customer record the invocation is for, <<>> when unknown
\*   prior       the code the latest successful issuance for the customer had
\*               returned when this one started; Null when there was none, or
\*               once a write of another invocation lands before the read
\*   nReads, nCreates, nWrites  the calls issued
\*   readClass   the class of the idempotency read's response
\*   readValue   the non-empty welcome code the customer record held at
\*               the read, Null when it held none
\*   readEmpty   the customer record held the welcome-code metafield with
\*               an empty value at the read
\*   tries       the classes of the create attempts' responses, in order
\*   registered  the code the store registered for this invocation
\*   writeClass  the class of the write's response
\*   configured  the deployment had SHOP, ADMIN_TOKEN and PRICE_RULE_ID set
\*   wellFormed  the request carried a customer payload with a customer id
NoHistory ==
  [customer |-> <<>>, prior |-> Null, nReads |-> 0, nCreates |-> 0, nWrites |-> 0,
   readClass |-> "none", readValue |-> Null, tries |-> <<>>, registered |-> Null,
   writeClass |-> "none", configured |-> TRUE, wellFormed |-> TRUE,
   readEmpty |-> FALSE]

\* the customer record an invocation's idempotency read addresses
ReadKey(p) == normalizeCustomerIds(inv[p].customerId).numericId
\* the customer record an invocation's write addresses, <<>> when none
WriteKey(p) == OwnerOf(normalizeCustomerIds(inv[p].customerId).gid)

\* ----- api/generate-discount.js -----
MaxTries == 3

\* the catch of getExistingWelcomeCode: a missing resource reads as "no metafield"
isNotFound(msg) == Includes(msg, T404)

\* the catch of the creation loop: a collision is retried
isCollision(msg) == Includes(msg, T422)

\* the metafield find() returns: the first one with the welcome-code key
findWelcome(metafields) ==
  LET hits == {k \in 1..Len(metafields) :
                 /\ metafields[k].namespace = "custom"
                 /\ metafields[k].key = "welcome_discount_code"}
  IN IF hits = {} THEN Null
     ELSE metafields[CHOOSE k \in hits : \A m \in hits : k <= m].value

\* what getExistingWelcomeCode makes of the store's response
getExistingWelcomeCode(resp) ==
  IF resp.kind = "ok"
    THEN [threw |-> FALSE, code |-> findWelcome(resp.metafields), error |-> NoError]
    ELSE IF isNotFound(ErrorMessage(resp))
      THEN [threw |-> FALSE, code |-> Null, error |-> NoError]
      ELSE [threw |-> TRUE, code |-> Null, error |-> ErrorMessage(resp)]

\* hasCode with an empty value taken for a code
hasCodeAnyValue(existing) == existing # Null

\* existing?.code is truthy
hasCode(existing) == existing # Null /\ existing # ""

\* what writeWelcomeCode makes of the store's response: the message thrown, or none
writeWelcomeCode(resp) ==
  CASE resp.kind = "ok" -> NoError
    [] resp.kind = "gqlErrors" -> <<"Q">>
    [] resp.kind = "userErrors" -> <<"U">>
    [] OTHER -> ErrorMessage(resp)

\* lines 63-85: the three metafields one metafieldsSet call sets
\* WelcomeMetafields with the code alone in the write
WelcomeMetafieldsCodeOnly(code) == [code |-> code, used |-> NoMeta, sent |-> NoMeta]

WelcomeMetafields(code) == [code |-> code, used |-> "false", sent |-> "false"]

\* the handler has responded: its locals are gone, the response remains
Respond(result) == [IdleInvocation EXCEPT !.pc = "done", !.result = result]

\* startStep with the idempotency read left out
startStepSkipsRead(rawId) ==
  IF rawId = <<>>
    THEN Respond(Failure(400, MissingId))
    ELSE [IdleInvocation EXCEPT !.pc = "create", !.customerId = rawId]

\* lines 177-192 on the locals: the payload is parsed and the customer id required
startStep(rawId) ==
  IF rawId = <<>>
    THEN Respond(Failure(400, MissingId))
    ELSE [IdleInvocation EXCEPT !.pc = "lookup", !.customerId = rawId]

\* "A": "Method not allowed",  "I": "Invalid signature",
\* "Y": the missing-customer-payload text,  "E": the missing-env-vars text,
\* "6": base64 of the text that follows it
MethodNotAllowed == <<"A">>
InvalidSignature == <<"I">>
MissingPayload == <<"Y">>
MissingEnvVars == <<"E">>

\* the raw body of a request, and what safeParse makes of it: whether it
\* parses, whether it has a customer object, the id under customer and the
\* id at the top level (<<>> when absent)
IssuancePayloads ==
  {[raw |-> <<"r">>, parsed |-> FALSE, hasCustomer |-> FALSE,
    customerId |-> <<>>, id |-> <<>>]}
    \cup {[raw |-> <<"j">>, parsed |-> TRUE, hasCustomer |-> TRUE, customerId |-> i, id |-> t] :
            i \in RawIds, t \in {<<>>, <<"1">>}}
    \cup {[raw |-> <<"j">>, parsed |-> TRUE, hasCustomer |-> FALSE, customerId |-> <<>>,
           id |-> t] : t \in {<<>>, <<"1">>}}

\* Buffer.from(FLOW_HMAC_SECRET + rawBody).toString("base64")
Signature(secret, rawBody) == <<"6">> \o secret \o rawBody

\* the requests the issuance endpoint can receive: signature is the value of
\* the x-flow-signature header and hmac that of x-shopify-hmac-sha256, <<>>
\* when the request carries none; a signed request is a POST
IssuanceRequests ==
  UNION {[method : {"POST", "GET"}, signature : {<<>>}, hmac : {<<>>}, payload : {b}]
         \cup [method : {"POST"},
               signature : {Signature(<<"k">>, b.raw), Signature(<<"x">>, b.raw)},
               hmac : {<<>>},
               payload : {b}]
         \cup [method : {"POST"},
               signature : {<<>>, Signature(<<"x">>, b.raw)},
               hmac : {Signature(<<"k">>, b.raw)},
               payload : {b}] : b \in IssuancePayloads}

\* process.env of the issuance endpoint; FLOW_HMAC_SECRET is "" when unset
IssuanceEnvs ==
  [SHOP : BOOLEAN, ADMIN_TOKEN : BOOLEAN, PRICE_RULE_ID : BOOLEAN,
   FLOW_HMAC_SECRET : {<<>>, <<"k">>}]

\* sent: the x-flow-signature header or, when that is absent or empty, the
\* x-shopify-hmac-sha256 header
verifyFlowHmac(req, rawBody, env) ==
  LET sent == IF req.signature # <<>> THEN req.signature ELSE req.hmac
  IN IF env.FLOW_HMAC_SECRET = <<>> THEN TRUE
     ELSE IF sent = <<>> THEN FALSE
     ELSE sent = Signature(env.FLOW_HMAC_SECRET, rawBody)

\* receiveStep with the check of the connection parameters left out
receiveStepNoEnvCheck(req, env) ==
  IF req.method # "POST" THEN Respond(Failure(405, MethodNotAllowed))
  ELSE IF ~verifyFlowHmac(req, req.payload.raw, env)
    THEN Respond(Failure(401, InvalidSignature))
  ELSE IF req.payload.parsed /\ req.payload.hasCustomer
    THEN startStep(req.payload.customerId)
  ELSE IF req.payload.parsed /\ req.payload.id # <<>>
    THEN startStep(req.payload.id)
  ELSE Respond(Failure(400, MissingPayload))

\* lines 153-192: method, connection parameters, signature, payload, customer id
receiveStep(req, env) ==
  IF req.method # "POST" THEN Respond(Failure(405, MethodNotAllowed))
  ELSE IF ~env.SHOP \/ ~env.ADMIN_TOKEN \/ ~env.PRICE_RULE_ID
    THEN Respond(Failure(500, MissingEnvVars))
  ELSE IF ~verifyFlowHmac(req, req.payload.raw, env)
    THEN Respond(Failure(401, InvalidSignature))
  ELSE IF req.payload.parsed /\ req.payload.hasCustomer
    THEN startStep(req.payload.customerId)
  ELSE IF req.payload.parsed /\ req.payload.id # <<>>
    THEN startStep(req.payload.id)
  ELSE Respond(Failure(400, MissingPayload))

\* lookupStep without the early return on an existing code
lookupStepNoShortCircuit(loc, resp) ==
  LET got == getExistingWelcomeCode(resp)
  IN IF got.threw
       THEN Respond(Failure(500, got.error))
       ELSE [loc EXCEPT !.pc = "create", !.existing = got.code]

\* lookupStep with a recorded code reused only while the price rule holds it
lookupStepChecksCatalog(loc, resp) ==
  LET got == getExistingWelcomeCode(resp)
  IN IF got.threw
       THEN Respond(Failure(500, got.error))
       ELSE IF hasCode(got.code) /\ got.code \in catalog
         THEN Respond(Success(got.code, TRUE))
         ELSE [loc EXCEPT !.pc = "create", !.existing = got.code]

\* lines 196-199 on the locals: the idempotency read and the reuse short-circuit
lookupStep(loc, resp) ==
  LET got == getExistingWelcomeCode(resp)
  IN IF got.threw
       THEN Respond(Failure(500, got.error))
       ELSE IF hasCode(got.code)
         THEN Respond(Success(got.code, TRUE))
         ELSE [loc EXCEPT !.pc = "create", !.existing = got.code]

\* createStep with every failure rethrown, collisions included
createStepNoRetry(loc, resp) ==
  IF resp.kind = "ok"
    THEN [loc EXCEPT !.created = resp.discount_code.code, !.pc = "write"]
    ELSE Respond(Failure(500, ErrorMessage(resp)))

\* createStep with the loop bound off by one (i <= 3)
createStepOffByOne(loc, resp) ==
  IF resp.kind = "ok"
    THEN [loc EXCEPT !.created = resp.discount_code.code, !.pc = "write"]
    ELSE IF ~isCollision(ErrorMessage(resp))
      THEN Respond(Failure(500, ErrorMessage(resp)))
      ELSE IF loc.i + 1 <= MaxTries
        THEN [loc EXCEPT !.i = @ + 1]
        ELSE Respond(Failure(500, Exhausted))

\* createStep with a rate-limited attempt taken for a collision
createStepRetriesRateLimit(loc, resp) ==
  IF resp.kind = "ok"
    THEN [loc EXCEPT !.created = resp.discount_code.code, !.pc = "write"]
    ELSE IF ~(isCollision(ErrorMessage(resp)) \/ Includes(ErrorMessage(resp), T429))
      THEN Respond(Failure(500, ErrorMessage(resp)))
      ELSE IF loc.i + 1 < MaxTries
        THEN [loc EXCEPT !.i = @ + 1]
        ELSE Respond(Failure(500, Exhausted))

\* lines 203-213 on the locals: one pass of the creation loop, and the
\* check after the loop when the pass was the last
createStep(loc, resp) ==
  IF resp.kind = "ok"
    THEN [loc EXCEPT !.created = resp.discount_code.code, !.pc = "write"]
    ELSE IF ~isCollision(ErrorMessage(resp))
      THEN Respond(Failure(500, ErrorMessage(resp)))
      ELSE IF loc.i + 1 < MaxTries
        THEN [loc EXCEPT !.i = @ + 1]
        ELSE Respond(Failure(500, Exhausted))

\* writeStep with a failed write issued again
writeStepRetried(loc, resp) ==
  LET msg == writeWelcomeCode(resp)
  IN IF msg = NoError
       THEN Respond(Success(loc.created, FALSE))
       ELSE loc

\* writeStep with the created code returned whatever the write's outcome
writeStepIgnoresFailure(loc, resp) ==
  Respond(Success(loc.created, FALSE))

\* lines 216-221 on the locals: the write's outcome decides the result
writeStep(loc, resp) ==
  LET msg == writeWelcomeCode(resp)
  IN IF msg = NoError
       THEN Respond(Success(loc.created, FALSE))
       ELSE Respond(Failure(500, msg))

\* ----- api/maintenance.js -----
DAYS_TO_KEEP == 8
DefaultRetries == 3
DefaultDelay == 1000
SampleSize == 5

\* ----- bounds of the notify-interest model -----
\* notify-interest requests served in one behaviour
MaxNotes == 2

\* ----- bounds of the maintenance model -----
\* codes the store serves on one page
PageLimit == 2
\* failed calls one maintenance run meets
MaxSweepFaults == 4
\* server errors quoting 429 that the initial walk meets at the store that
\* fails at will
MaxQuoted == 1
\* the last day the clock reaches
LastDay == 11

\* the day the behaviours start on
Today == 10

\* ----- the Catalog Service, as maintenance sees it -----
DiscountCode(id, code, created_at, usage_count) ==
  [id |-> id, code |-> code, created_at |-> created_at, usage_count |-> usage_count]

\* the codes the price rule can hold: on day 10 codes 1, 3 and 5 are 9 days
\* old, code 2 is exactly 8 days old and code 4 is 7 days old
Inventory ==
  <<DiscountCode(1, "MISHMUSH-A", 1, 0), DiscountCode(2, "MISHMUSH-B", 2, 1),
    DiscountCode(3, "MISHMUSH-C", 1, 2), DiscountCode(4, "MISHMUSH-D", 3, 0),
    DiscountCode(5, "MISHMUSH-E", 1, 0)>>

\* the id the store knows a code by
CodeNames ==
  <<"MISHMUSH-A", "MISHMUSH-B", "MISHMUSH-C", "MISHMUSH-D", "MISHMUSH-E", "MISHMUSH-F">>
CodeId(code) == CHOOSE n \in 1..Len(CodeNames) : CodeNames[n] = code
\* the names of the codes a listing holds
CodesOf(codes) == {codes[k].code : k \in 1..Len(codes)}
\* the store lists the codes of a price rule by id: the listing once c is added
ListCode(codes, c) ==
  SelectSeq(codes, LAMBDA d : d.id < c.id) \o <<c>>
    \o SelectSeq(codes, LAMBDA d : d.id > c.id)

Min(a, b) == IF a <= b THEN a ELSE b

\* "B": https://${SHOP}/admin/api/${API_VERSION}
Base == <<"B">>
\* "P": /price_rules/${PRICE_RULE_ID}/discount_codes.json?limit=250, then
\* the digit of the page the cursor names
DigitText == <<"0", "1", "2", "3", "4", "5", "6", "7", "8", "9">>
PagePath(n) == <<"P", DigitText[n + 1]>>
PageOf(path) == CHOOSE n \in 0..9 : DigitText[n + 1] = path[2]
FirstPath == PagePath(1)
NoURL == <<>>
NoLink == <<>>

\* GET of one page of the listing: its items, and the Link header that
\* names the previous and the next page when there is one
ServePage(path) ==
  LET n == PageOf(path)
      from == (n - 1) * PageLimit
      prev == IF n > 1
                THEN <<[url |-> Base \o PagePath(n - 1), rel |-> "previous"]>>
                ELSE <<>>
      next == IF from + PageLimit < Len(listing)
                THEN <<[url |-> Base \o PagePath(n + 1), rel |-> "next"]>>
                ELSE <<>>
  IN [kind |-> "ok",
      discount_codes |-> SubSeq(listing, from + 1, Min(from + PageLimit, Len(listing))),
      link |-> prev \o next]

\* the ids of the codes the price rule holds
ListedIds == {listing[k].id : k \in 1..Len(listing)}

\* DELETE of one code as the store can answer it: a listed code is removed
\* and the answer is ok, with a JSON body or with none (json: the body
\* parses); a code that is gone is not found
StoreDelete(id) ==
  IF id \in ListedIds THEN [kind : {"ok"}, json : BOOLEAN] ELSE {Http(T404, <<>>)}

\* failures a call of the maintenance run can meet: rate limited, a server
\* error, a server error whose body quotes the digits 429
SweepFaults == {Http(T429, <<>>), Http(T500, <<>>), Http(T500, T429)}

\* what the reporting sink can answer: accepted, an HTTP error, no connection
SinkOutcomes == {"ok", "httpError", "rejected"}

\* ----- the trigger -----
\* "H": "Bearer "
Bearer(secret) == <<"H">> \o secret
NoHeader == <<"<undefined>">>
Requests ==
  {[method |-> "GET", authorization |-> a] :
     a \in {NoHeader, Bearer(<<"s">>), Bearer(<<"x">>)}}
    \cup {[method |-> "POST", authorization |-> Bearer(<<"s">>)]}

\* process.env: whether each connection parameter is set, the cron secret
\* (<<>> when unset), whether a Slack webhook is configured
Envs ==
  [SHOP : BOOLEAN, ADMIN_TOKEN : BOOLEAN, PRICE_RULE_ID : BOOLEAN,
   CRON_SECRET : {<<>>, <<"s">>}, SLACK_WEBHOOK_URL : BOOLEAN]

\* ----- what the run computes -----
\* err.message of fetchAllDiscountCodes (no status text)
FetchAllMessage(resp) == <<"S">> \o resp.status \o <<":">> \o resp.body

\* "J": the message of the SyntaxError res.json() throws on an empty body,
\* "Unexpected end of JSON input"
UnexpectedEnd == <<"J">>

\* err.message of shopifyFetch for the DELETE answered resp, NoError when it
\* returns: lines 54-59
DeleteError(resp) ==
  IF resp.kind # "ok" THEN ErrorMessage(resp)
  ELSE IF ~resp.json THEN UnexpectedEnd
  ELSE NoError

\* /(429|rate limit)/i.test(msg); "R" stands for the words "rate limit"
isRateLimit(msg) == Includes(msg, T429) \/ Includes(msg, <<"R">>)

\* created < cutoff, with the cutoff `days` before now
isOlderThan(created_at, days, now) == created_at < now - days

oldCodesOf(codes, now) ==
  SelectSeq(codes, LAMBDA c : isOlderThan(c.created_at, DAYS_TO_KEEP, now))

\* getDiscountCodeStats with every code put in the samples
getDiscountCodeStatsAllSamples(codes) ==
  [total |-> Len(codes),
   used |-> Len(SelectSeq(codes, LAMBDA c : c.usage_count > 0)),
   unused |-> Len(SelectSeq(codes, LAMBDA c : c.usage_count = 0)),
   samples |-> [k \in 1..Len(codes) |->
                  [code |-> codes[k].code, usage_count |-> codes[k].usage_count,
                   created_at |-> codes[k].created_at]]]

getDiscountCodeStats(codes) ==
  [total |-> Len(codes),
   used |-> Len(SelectSeq(codes, LAMBDA c : c.usage_count > 0)),
   unused |-> Len(SelectSeq(codes, LAMBDA c : c.usage_count = 0)),
   samples |-> [k \in 1..Min(SampleSize, Len(codes)) |->
                  [code |-> codes[k].code, usage_count |-> codes[k].usage_count,
                   created_at |-> codes[k].created_at]]]

NoStats == [total |-> 0, used |-> 0, unused |-> 0, samples |-> <<>>]

\* link.match(/<([^>]+)>; rel="next"/): the first entry of the header with
\* rel="next", and the replace that strips the base from its URL:
\* String.replace with a string removes its first occurrence, wherever it is
StripBase(url) ==
  LET at == {k \in 1..(Len(url) - Len(Base) + 1) :
               SubSeq(url, k, k + Len(Base) - 1) = Base}
  IN IF at = {} THEN url
     ELSE LET k == CHOOSE i \in at : \A j \in at : i <= j
          IN SubSeq(url, 1, k - 1) \o SubSeq(url, k + Len(Base), Len(url))
nextOf(link) ==
  LET hits == {k \in 1..Len(link) : link[k].rel = "next" /\ link[k].url # <<>>}
  IN IF hits = {} THEN NoURL
     ELSE StripBase(link[CHOOSE k \in hits : \A m \in hits : k <= m].url)

\* ----- the maintenance handler's locals and responses -----
\* fields: the keys the JSON payload carries
NoSweepResult ==
  [status |-> 0, fields |-> {}, error |-> NoError, timestamp |-> 0, deleted |-> 0,
   statsBefore |-> NoStats, statsAfter |-> NoStats]
SweepSuccess(timestamp, deleted, statsBefore, statsAfter) ==
  [status |-> 200,
   fields |-> {"success", "timestamp", "deleted", "statsBefore", "statsAfter", "message"},
   error |-> NoError, timestamp |-> timestamp, deleted |-> deleted,
   statsBefore |-> statsBefore, statsAfter |-> statsAfter]
SweepFailure(msg, timestamp) ==
  [NoSweepResult EXCEPT !.status = 500, !.fields = {"error", "timestamp"},
                        !.error = msg, !.timestamp = timestamp]
Rejected(status, msg) ==
  [NoSweepResult EXCEPT !.status = status, !.fields = {"error"}, !.error = msg]

UseGet == <<"N">>
Unauthorized == <<"Z">>
MissingEnv == <<"E">>

\* pc: the await the run rests at; stage: the withRetry call it is inside;
\* retries, delay: the arguments of the current withRetry frame; acc, nextURL:
\* the locals of fetchAllDiscountCodes; pending: the ids with a DELETE in flight
SweepIdle ==
  [pc |-> "idle", stage |-> "none", timestamp |-> 0, slack |-> FALSE,
   retries |-> 0, delay |-> 0, acc |-> <<>>, nextURL |-> NoURL,
   codes |-> <<>>, statsBefore |-> NoStats, oldCodes |-> <<>>, k |-> 0,
   pending |-> {}, deleted |-> 0, remainingCodes |-> <<>>, statsAfter |-> NoStats,
   result |-> NoSweepResult]

\* the handler has responded
sweepRespond(loc, result) == [loc EXCEPT !.pc = "done", !.result = result]

\* enterWalk with the accumulator kept from the attempt before
enterWalkKeepsAcc(loc) == [loc EXCEPT !.pc = "page", !.nextURL = FirstPath]

\* fetchAllDiscountCodes is entered: lines 71-72
enterWalk(loc) == [loc EXCEPT !.pc = "page", !.acc = <<>>, !.nextURL = FirstPath]

\* withRetry(fetchAllDiscountCodes) is called with the default arguments
beginWalk(loc, stage) ==
  enterWalk([loc EXCEPT !.stage = stage, !.retries = DefaultRetries,
                        !.delay = DefaultDelay])

\* enterDelete with the DELETEs of all the stale codes from k on issued together
enterDeleteAll(loc) ==
  [loc EXCEPT !.pc = "delete",
              !.pending = {loc.oldCodes[j].id : j \in loc.k..Len(loc.oldCodes)}]

\* one DELETE is issued: the body of the wrapped arrow function
enterDelete(loc) ==
  [loc EXCEPT !.pc = "delete", !.pending = {loc.oldCodes[loc.k].id}]

\* the loop of deleteOldCodes reaches code k: withRetry with the default arguments
beginDelete(loc, k) ==
  enterDelete([loc EXCEPT !.stage = "delete", !.k = k, !.retries = DefaultRetries,
                          !.delay = DefaultDelay])

\* the catch of withRetry, lines 32-40, when the budget is checked as retries >= 0
withRetryCatchOneMore(loc, msg) ==
  IF loc.retries >= 0 /\ isRateLimit(msg)
    THEN [loc EXCEPT !.pc = "sleep", !.pending = {}]
    ELSE sweepRespond([loc EXCEPT !.pending = {}], SweepFailure(msg, loc.timestamp))

\* the catch of withRetry with the budget not checked
withRetryCatchUnbudgeted(loc, msg) ==
  IF isRateLimit(msg)
    THEN [loc EXCEPT !.pc = "sleep", !.pending = {}]
    ELSE sweepRespond([loc EXCEPT !.pending = {}], SweepFailure(msg, loc.timestamp))

\* the catch of withRetry, lines 32-40: wait and retry, or rethrow into the
\* handler's catch
withRetryCatch(loc, msg) ==
  IF loc.retries > 0 /\ isRateLimit(msg)
    THEN [loc EXCEPT !.pc = "sleep", !.pending = {}]
    ELSE sweepRespond([loc EXCEPT !.pending = {}], SweepFailure(msg, loc.timestamp))

\* sleepStep with the delay kept constant
sleepStepFlat(loc) ==
  LET l == [loc EXCEPT !.retries = @ - 1]
  IN IF l.stage = "delete" THEN enterDelete(l) ELSE enterWalk(l)

\* line 37 once the sleep is over: withRetry(fn, retries - 1, delay * 2)
sleepStep(loc) ==
  LET l == [loc EXCEPT !.retries = @ - 1, !.delay = @ * 2]
  IN IF l.stage = "delete" THEN enterDelete(l) ELSE enterWalk(l)

\* sendSlackSummary with the webhook's failure left uncaught
slackStepUncaught(loc, outcome) ==
  IF outcome = "rejected"
    THEN sweepRespond(loc, SweepFailure(<<"F">>, loc.timestamp))
    ELSE sweepRespond(loc, SweepSuccess(loc.timestamp, loc.deleted, loc.statsBefore,
                                   loc.statsAfter))

\* lines 144-148 and 184-193: whatever the sink answers, the run succeeds
slackStep(loc, outcome) ==
  sweepRespond(loc, SweepSuccess(loc.timestamp, loc.deleted, loc.statsBefore,
                            loc.statsAfter))

\* afterRefetch with the stats after deletion computed from the initial fetch
afterRefetchStatsOfFetch(loc, remainingCodes) ==
  LET l == [loc EXCEPT !.stage = "report", !.acc = <<>>, !.nextURL = NoURL,
                       !.remainingCodes = remainingCodes,
                       !.statsAfter = getDiscountCodeStats(loc.codes)]
  IN IF ~l.slack
       THEN sweepRespond(l, SweepSuccess(l.timestamp, l.deleted, l.statsBefore,
                                         l.statsAfter))
       ELSE [l EXCEPT !.pc = "slack"]

\* lines 180-193: the re-fetch returned; stats, then the summary
afterRefetch(loc, remainingCodes) ==
  LET l == [loc EXCEPT !.stage = "report", !.acc = <<>>, !.nextURL = NoURL,
                       !.remainingCodes = remainingCodes,
                       !.statsAfter = getDiscountCodeStats(remainingCodes)]
  IN IF ~l.slack
       THEN sweepRespond(l, SweepSuccess(l.timestamp, l.deleted, l.statsBefore,
                                         l.statsAfter))
       ELSE [l EXCEPT !.pc = "slack"]

\* afterFetch with the age compared as created <= cutoff
afterFetchInclusive(loc, codes, now) ==
  LET l == [loc EXCEPT !.codes = codes, !.statsBefore = getDiscountCodeStats(codes),
                       !.oldCodes = SelectSeq(codes,
                          LAMBDA c : c.created_at <= now - DAYS_TO_KEEP),
                       !.deleted = 0, !.acc = <<>>, !.nextURL = NoURL]
  IN IF Len(l.oldCodes) = 0 THEN beginWalk(l, "refetch") ELSE beginDelete(l, 1)

\* lines 174-176 and 96-103: the initial fetch returned; stats, the stale
\* codes, and the first delete or, with none stale, the re-fetch
afterFetch(loc, codes, now) ==
  LET l == [loc EXCEPT !.codes = codes, !.statsBefore = getDiscountCodeStats(codes),
                       !.oldCodes = oldCodesOf(codes, now),
                       !.deleted = 0, !.acc = <<>>, !.nextURL = NoURL]
  IN IF Len(l.oldCodes) = 0 THEN beginWalk(l, "refetch") ELSE beginDelete(l, 1)

\* pageStep with the page's items put in front of the accumulator
pageStepPrepends(loc, resp, now) ==
  IF resp.kind # "ok"
    THEN withRetryCatch(loc, FetchAllMessage(resp))
    ELSE LET acc == resp.discount_codes \o loc.acc
             next == nextOf(resp.link)
         IN IF next # NoURL
              THEN [loc EXCEPT !.acc = acc, !.nextURL = next]
              ELSE IF loc.stage = "fetch" THEN afterFetch(loc, acc, now)
                                          ELSE afterRefetch(loc, acc)

\* pageStep with the retry budget granted anew for each page
pageStepRenewsBudget(loc, resp, now) ==
  IF resp.kind # "ok"
    THEN withRetryCatch(loc, FetchAllMessage(resp))
    ELSE LET acc == loc.acc \o resp.discount_codes
             next == nextOf(resp.link)
         IN IF next # NoURL
              THEN [loc EXCEPT !.acc = acc, !.nextURL = next,
                               !.retries = DefaultRetries]
              ELSE IF loc.stage = "fetch" THEN afterFetch(loc, acc, now)
                                          ELSE afterRefetch(loc, acc)

\* lines 75-92: one page request of fetchAllDiscountCodes is answered
pageStep(loc, resp, now) ==
  IF resp.kind # "ok"
    THEN withRetryCatch(loc, FetchAllMessage(resp))
    ELSE LET acc == loc.acc \o resp.discount_codes
             next == nextOf(resp.link)
         IN IF next # NoURL
              THEN [loc EXCEPT !.acc = acc, !.nextURL = next]
              ELSE IF loc.stage = "fetch" THEN afterFetch(loc, acc, now)
                                          ELSE afterRefetch(loc, acc)

\* deleteStep with the re-fetch begun as soon as one delete is acknowledged
deleteStepRefetchesEarly(loc, resp) ==
  IF DeleteError(resp) # NoError
    THEN withRetryCatch(loc, DeleteError(resp))
    ELSE beginWalk([loc EXCEPT !.deleted = @ + 1, !.pending = {}], "refetch")

\* deleteStep with the count so far put in the failure payload
deleteStepReportsCount(loc, resp) ==
  IF DeleteError(resp) # NoError
    THEN LET next == withRetryCatch(loc, DeleteError(resp))
         IN IF next.pc = "done"
              THEN [next EXCEPT !.result.fields = @ \cup {"deleted"},
                                !.result.deleted = loc.deleted]
              ELSE next
    ELSE LET l == [loc EXCEPT !.deleted = @ + 1, !.pending = {}]
         IN IF loc.k < Len(loc.oldCodes) THEN beginDelete(l, loc.k + 1)
                                         ELSE beginWalk(l, "refetch")

\* deleteStep with the DELETE of a code that is gone taken for done
deleteStepTolerant(loc, resp) ==
  IF DeleteError(resp) # NoError /\ ~Includes(DeleteError(resp), T404)
    THEN withRetryCatch(loc, DeleteError(resp))
    ELSE LET l == [loc EXCEPT !.deleted = @ + 1, !.pending = {}]
         IN IF loc.k < Len(loc.oldCodes) THEN beginDelete(l, loc.k + 1)
                                         ELSE beginWalk(l, "refetch")

\* lines 103-113 and 179: the DELETE of code k is answered; shopifyFetch
\* throws on a failure and on an ok answer whose body does not parse
deleteStep(loc, resp) ==
  IF DeleteError(resp) # NoError
    THEN withRetryCatch(loc, DeleteError(resp))
    ELSE LET l == [loc EXCEPT !.deleted = @ + 1, !.pending = {}]
         IN IF loc.k < Len(loc.oldCodes) THEN beginDelete(l, loc.k + 1)
                                         ELSE beginWalk(l, "refetch")

\* lines 154-173: the trigger is checked and the initial fetch begins
sweepStart(req, env, now) ==
  IF req.method # "GET" THEN sweepRespond(SweepIdle, Rejected(405, UseGet))
  ELSE IF env.CRON_SECRET # <<>> /\ req.authorization # Bearer(env.CRON_SECRET)
    THEN sweepRespond(SweepIdle, Rejected(401, Unauthorized))
  ELSE IF ~env.SHOP \/ ~env.ADMIN_TOKEN \/ ~env.PRICE_RULE_ID
    THEN sweepRespond(SweepIdle, Rejected(500, MissingEnv))
  ELSE beginWalk([SweepIdle EXCEPT !.timestamp = now, !.slack = env.SLACK_WEBHOOK_URL],
                 "fetch")

\* ----- api/notify-interest.js -----
\* The handler exists in two editions: the webhook edition
\* (api/notify-interest.js, fed by the customer_tags_added webhook) and the
\* client edition (the storefront posts {variantId, email}).  Its letters:
\*   "V"  notify-variant-,  "W"  gid://shopify/ProductVariant/
Editions == {"webhook", "client"}

\* String.prototype.trim, for the blank the model knows
RECURSIVE TrimLeft(_)
TrimLeft(s) == IF s # <<>> /\ Head(s) = " " THEN TrimLeft(Tail(s)) ELSE s
RECURSIVE TrimRight(_)
TrimRight(s) ==
  IF s # <<>> /\ s[Len(s)] = " " THEN TrimRight(SubSeq(s, 1, Len(s) - 1)) ELSE s
Trim(s) == TrimRight(TrimLeft(s))

\* the tags a webhook can carry, and the first one that starts with "notify-variant-"
TagLists ==
  {<<>>, <<<<"v", "i", "p">>>>, <<<<"v", "i", "p">>, <<"V", "7">>>>,
   <<<<"V", "8">>, <<"V", "7">>>>, <<<<"V", "7", " ">>>>}
findNotifyTag(addedTags) ==
  LET hits == {k \in 1..Len(addedTags) : addedTags[k] # <<>> /\ Head(addedTags[k]) = "V"}
  IN IF hits = {} THEN <<>>
     ELSE addedTags[CHOOSE k \in hits : \A m \in hits : k <= m]

\* the addresses a request can name, with and without an "@"
Addresses == {<<"a", "@", "b">>, <<"c">>}
\* email.split("@")[0]
BeforeAt(email) ==
  LET hits == {k \in 1..Len(email) : email[k] = "@"}
  IN IF hits = {} THEN email
     ELSE SubSeq(email, 1, (CHOOSE k \in hits : \A m \in hits : k <= m) - 1)

\* the parsed body of a request; a text field it does not carry is <<>>
\* (empty and absent are both falsy), and so is the tag list (added_tags || []);
\* parsed is false when the body is not JSON, customer.present when
\* payload.data.customer is there
NoCustomer == [present |-> FALSE, email |-> <<>>, first_name |-> <<>>]
WebhookCustomers ==
  {NoCustomer}
    \cup {[present |-> TRUE, email |-> e, first_name |-> n] :
            e \in Addresses, n \in {<<>>, <<"n">>}}
Unparsable ==
  [parsed |-> FALSE, customer |-> NoCustomer, added_tags |-> <<>>,
   variantId |-> <<>>, email |-> <<>>]
NotePayloads ==
  {Unparsable}
    \cup {[parsed |-> TRUE, customer |-> c, added_tags |-> t,
           variantId |-> <<>>, email |-> <<>>] :
            c \in WebhookCustomers, t \in TagLists}
    \cup {[parsed |-> TRUE, customer |-> NoCustomer, added_tags |-> <<>>,
           variantId |-> v, email |-> e] :
            v \in {<<>>, <<"7">>, <<"W", "7">>, <<"8">>}, e \in {<<>>} \cup Addresses}

AllowedOrigins == {"https://mishmushkids.com", "https://www.mishmushkids.com"}
NoteRequests ==
  [method : {"POST", "GET", "OPTIONS"},
   origin : {"", "https://mishmushkids.com", "https://example.com"},
   payload : NotePayloads]
NoteEnvs == [SHOP : BOOLEAN, ADMIN_TOKEN : BOOLEAN, RESEND_API_KEY : BOOLEAN]

\* the variants the store knows, and its answer to the productVariant query
\* (present is false for productVariant: null; "" for a null image or URL)
TheVariant == [present |-> TRUE, title |-> "t", image |-> "",
               product |-> [title |-> "p", handle |-> "h", onlineStoreUrl |-> ""]]
NoVariant == [TheVariant EXCEPT !.present = FALSE]
KnownVariants == {<<"W", "7">>}
VariantLookup(gid) ==
  [kind |-> "ok", hasData |-> TRUE,
   productVariant |-> IF gid \in KnownVariants THEN TheVariant ELSE NoVariant]
\* a GraphQL answer with top-level errors and no data, and a failed request
VariantFaults ==
  {[kind |-> "ok", hasData |-> FALSE, productVariant |-> NoVariant], Http(T500, <<>>)}

\* what the email provider can answer: accepted, an HTTP error, no connection
SendOutcomes == {"ok", "httpError", "rejected"}

\* the response: status, the text of its message or error, and the origin
\* its Access-Control-Allow-Origin header names ("" when it carries none)
NoReply == [status |-> 0, text |-> "", allowOrigin |-> ""]
Reply(status, text) == [status |-> status, text |-> text, allowOrigin |-> ""]

\* pc: the await the handler rests at; to, firstName, variantGid, html: its
\* locals; allowOrigin: the header set on the response; reply: the response sent;
\* fetches, sends: the requests issued to the store and to the email provider;
\* answers: what the email provider answered; served: the requests served before
NoHtml == [name |-> <<>>, productUrl |-> "", imgSrc |-> ""]
NoteIdle ==
  [pc |-> "idle", edition |-> "none", to |-> <<>>, firstName |-> <<>>,
   variantGid |-> <<>>, html |-> NoHtml, allowOrigin |-> "", reply |-> NoReply,
   fetches |-> 0, sends |-> 0, answers |-> <<>>, served |-> 0]

noteRespond(loc, reply) ==
  [loc EXCEPT !.pc = "done", !.reply = [reply EXCEPT !.allowOrigin = loc.allowOrigin]]

\* buildEmailHtml and buildConfirmSubscriptionEmail: the parts of the email
\* that depend on the inputs
buildEmailHtml(firstName, product, variant) ==
  [name |-> IF firstName = <<>> THEN <<"t", "h", "e", "r", "e">> ELSE firstName,
   productUrl |-> IF product.onlineStoreUrl # "" THEN product.onlineStoreUrl
                                                  ELSE product.handle,
   imgSrc |-> variant.image]

\* api/notify-interest.js lines 39-75: the webhook is checked
webhookStart(loc, req, env) ==
  IF req.method # "POST" THEN noteRespond(loc, Reply(405, "Method not allowed"))
  ELSE IF ~env.SHOP \/ ~env.ADMIN_TOKEN \/ ~env.RESEND_API_KEY
    THEN noteRespond(loc, Reply(500, "Missing required env vars"))
  ELSE IF ~req.payload.parsed \/ ~req.payload.customer.present
    THEN noteRespond(loc, Reply(200, "No customer object in webhook payload."))
  ELSE LET customer == req.payload.customer
           addedTags == req.payload.added_tags
           notifyTag == findNotifyTag(addedTags)
       IN IF notifyTag = <<>>
            THEN noteRespond(loc, Reply(200, "No notify-variant tag found, ignoring."))
            ELSE [loc EXCEPT !.pc = "variant", !.to = customer.email,
                             !.firstName = customer.first_name,
                             !.variantGid = <<"W">> \o Trim(Tail(notifyTag))]

\* the client edition, lines 45-108: CORS, then the posted fields are checked
clientStart(loc, req, env) ==
  LET originAllowed == req.origin # "" /\ req.origin \in AllowedOrigins
      l == IF req.origin # "" /\ originAllowed /\ req.method # "OPTIONS"
             THEN [loc EXCEPT !.allowOrigin = req.origin] ELSE loc
      rawVariantId == req.payload.variantId
      email == req.payload.email
  IN IF req.method = "OPTIONS"
       THEN IF originAllowed
              THEN noteRespond([loc EXCEPT !.allowOrigin = req.origin], Reply(204, ""))
              ELSE noteRespond(loc, Reply(403, ""))
     ELSE IF req.origin # "" /\ ~originAllowed
       THEN noteRespond(loc, Reply(403, "CORS origin not allowed"))
     ELSE IF req.method # "POST" THEN noteRespond(l, Reply(405, "Method not allowed"))
     ELSE IF ~env.SHOP \/ ~env.ADMIN_TOKEN \/ ~env.RESEND_API_KEY
       THEN noteRespond(l, Reply(500, "Missing required env vars"))
     ELSE IF rawVariantId = <<>> \/ email = <<>>
       THEN noteRespond(l, Reply(400, "Missing required fields: variantId, email"))
     ELSE [l EXCEPT !.pc = "variant", !.to = email,
                    !.firstName = IF \E k \in 1..Len(email) : email[k] = "@"
                                    THEN BeforeAt(email) ELSE <<"t", "h", "e", "r", "e">>,
                    !.variantGid = IF Head(rawVariantId) \in {"G", "W"}
                                     THEN rawVariantId ELSE <<"W">> \o rawVariantId]

notifyStart(edition, loc, req, env) ==
  IF edition = "webhook" THEN webhookStart([loc EXCEPT !.edition = edition], req, env)
                         ELSE clientStart([loc EXCEPT !.edition = edition], req, env)

\* the productVariant query is answered: not found, or the email is built
\* and the send request issued
variantStep(loc, resp) ==
  IF resp.kind # "ok" THEN noteRespond(loc, Reply(500, "Shopify API"))
  ELSE LET variant == IF resp.hasData THEN resp.productVariant ELSE NoVariant
       IN IF ~variant.present
            THEN IF loc.edition = "webhook"
                   THEN noteRespond(loc, Reply(200, "Variant not found."))
                   ELSE noteRespond(loc, Reply(404, "Variant not found"))
            ELSE [loc EXCEPT !.pc = "send",
                             !.html = buildEmailHtml(loc.firstName, variant.product, variant)]

\* sendStep with a failed send issued again
sendStepAgain(loc, outcome) ==
  IF outcome = "ok" THEN noteRespond(loc, Reply(200, "success")) ELSE loc

\* the send request is answered: the webhook edition fails on an HTTP error,
\* the client edition only logs it; a request that cannot be made fails both
sendStep(loc, outcome) ==
  IF outcome = "rejected" THEN noteRespond(loc, Reply(500, "fetch failed"))
  ELSE IF outcome = "httpError" /\ loc.edition = "webhook"
    THEN noteRespond(loc, Reply(500, "Resend email failed"))
  ELSE noteRespond(loc, Reply(200, "success"))

\* ----- the maintenance run -----
\* history of one run:
\*   triggeredAt  the time the trigger arrived
\*   trail      the phases the run entered, in order
\*   walk       the page requests of the walk under way and the pages served to it
\*   walked     the last walk that returned: its requests, its pages, its result
\*   call       the withRetry call under way: its attempts (with the class of
\*              each one's outcome) and its waits, in order
\*   called     the last withRetry call that ended, and whether it threw
\*   fetched, filterNow   the initial fetch's result and the time of the age test
\*   refetched  the re-fetch's result
\*   deletes    the DELETE requests issued, in order: the ids requested together
\*   removed    the ids whose DELETE the store acknowledged, in order
\*   failedIn   the phase the run failed in
\*   sink       what the reporting sink answered
\*   configured the deployment had SHOP, ADMIN_TOKEN and PRICE_RULE_ID set
\* traffic, when on, keeps what the history above forgets: whether the
\* trigger presented the deployment's secret as its bearer credential (with no
\* secret set there is none to present), every page request (the walk it
\* belongs to, its path, the class of its answer) and every wait of the run
Try(class) == [t |-> "try", class |-> class, delay |-> 0]
Wait(delay) == [t |-> "wait", class |-> "none", delay |-> delay]
NoCall == [ended |-> FALSE, stage |-> "none", log |-> <<>>, threw |-> FALSE,
           error |-> NoError, lastError |-> NoError]
NoWalk == [requests |-> 0, pages |-> <<>>]
NoSweep ==
  [triggeredAt |-> 0, trail |-> <<>>, walk |-> NoWalk,
   walked |-> [ended |-> FALSE, requests |-> 0, pages |-> <<>>, result |-> <<>>],
   call |-> <<>>, called |-> NoCall,
   fetched |-> <<>>, filterNow |-> 0, refetched |-> <<>>,
   deletes |-> <<>>, removed |-> <<>>, failedIn |-> "none", sink |-> "none",
   configured |-> TRUE]

NoTraffic == [on |-> FALSE, credential |-> FALSE, pages |-> <<>>, waits |-> <<>>]
Recording == [NoTraffic EXCEPT !.on = TRUE]

Last(s) == s[Len(s)]

Init ==
  /\ catalog = {}
  /\ meta \in [Customers -> {[code |-> c, used |-> NoMeta, sent |-> NoMeta] : c \in {NoMeta, ""}}]
  /\ inv = [p \in Invocations |-> IdleInvocation]
  /\ hist = [p \in Invocations |-> NoHistory]
  /\ issued = [c \in Customers |-> {}]
  /\ returned = [c \in Customers |-> Null]
  /\ started = 0
  /\ faults = 0
  /\ listing = <<>>
  /\ clock = Today
  /\ run = SweepIdle
  /\ sweep = NoSweep
  /\ traffic = NoTraffic
  /\ note = NoteIdle
  /\ rival = SweepIdle

\* a transient failure counts against the failures one behaviour meets
Meets(resp) ==
  IF resp \in Faults \cup {GqlErrors}
    THEN faults < MaxFaults /\ faults' = faults + 1
    ELSE faults' = faults

\* a response is on its way to the caller
Responding == \E q \in Invocations : inv[q].pc = "done"

\* the response reaches the caller and the instance is free again
Deliver(p) ==
  /\ inv[p].pc = "done"
  /\ inv' = [inv EXCEPT ![p] = IdleInvocation]
  /\ hist' = [hist EXCEPT ![p] = NoHistory]
  /\ UNCHANGED <<catalog, meta, issued, returned, started, faults>>
  /\ UNCHANGED svars
  /\ UNCHANGED <<note, rival>>

\* a request arrives at an instance that is not serving one
Start(p, rawId) ==
  /\ inv[p].pc = "idle"
  /\ ~Responding
  /\ started < MaxInvocations
  /\ started' = started + 1
  /\ inv' = [inv EXCEPT ![p] = startStep(rawId)]
  /\ hist' = [hist EXCEPT ![p] =
       LET c == normalizeCustomerIds(rawId).numericId
       IN IF rawId # <<>> /\ c \in Customers
            THEN [NoHistory EXCEPT !.customer = c, !.prior = returned[c]]
            ELSE [NoHistory EXCEPT !.wellFormed = rawId # <<>>]]
  /\ UNCHANGED <<catalog, meta, issued, returned, faults>>
  /\ UNCHANGED svars
  /\ UNCHANGED <<note, rival>>

\* a request arrives at an instance, with all that a request and a
\* deployment can be
Receive(p, req, env) ==
  /\ inv[p].pc = "idle"
  /\ ~Responding
  /\ started < MaxInvocations
  /\ started' = started + 1
  /\ inv' = [inv EXCEPT ![p] = receiveStep(req, env)]
  /\ hist' = [hist EXCEPT ![p] =
       LET rawId == IF req.payload.parsed /\ req.payload.hasCustomer
                      THEN req.payload.customerId
                    ELSE IF req.payload.parsed THEN req.payload.id ELSE <<>>
           c == normalizeCustomerIds(rawId).numericId
           h == [NoHistory EXCEPT
                   !.configured = env.SHOP /\ env.ADMIN_TOKEN /\ env.PRICE_RULE_ID,
                   !.wellFormed = rawId # <<>>]
       IN IF inv'[p].pc = "lookup" /\ c \in Customers
            THEN [h EXCEPT !.customer = c, !.prior = returned[c]]
            ELSE h]
  /\ UNCHANGED <<catalog, meta, issued, returned, faults>>
  /\ UNCHANGED svars
  /\ UNCHANGED <<note, rival>>

\* the idempotency read is answered
Lookup(p, resp) ==
  /\ inv[p].pc = "lookup"
  /\ ~Responding
  /\ inv' = [inv EXCEPT ![p] = lookupStep(@, resp)]
  /\ hist' = [hist EXCEPT ![p] =
       [@ EXCEPT !.nReads = @ + 1, !.readClass = ClassOf(resp),
                 !.readValue = IF resp.kind = "ok" /\ IsCode(meta[ReadKey(p)].code)
                                 THEN meta[ReadKey(p)].code ELSE Null,
                 !.readEmpty = resp.kind = "ok" /\ meta[ReadKey(p)].code = ""]]
  /\ returned' = IF inv'[p].result.status = 200
                   THEN [returned EXCEPT ![ReadKey(p)] = inv'[p].result.code]
                   ELSE returned
  /\ Meets(resp)
  /\ UNCHANGED <<catalog, meta, issued, started>>
  /\ UNCHANGED svars
  /\ UNCHANGED <<note, rival>>

\* a create attempt with a fresh candidate is answered
CreateAttempt(p, r, resp) ==
  /\ inv[p].pc = "create"
  /\ ~Responding
  /\ inv' = [inv EXCEPT ![p] = createStep(@, resp)]
  /\ hist' = [hist EXCEPT ![p] =
       [@ EXCEPT !.nCreates = @ + 1, !.tries = Append(@, ClassOf(resp)),
                 !.registered = IF resp.kind = "ok" THEN randomCode(r) ELSE @]]
  /\ IF resp.kind = "ok"
       THEN /\ catalog' = catalog \cup {randomCode(r)}
            /\ listing' = ListCode(listing, DiscountCode(CodeId(randomCode(r)),
                                                         randomCode(r), clock, 0))
            /\ issued' = [c \in Customers |->
                 IF c = hist[p].customer THEN issued[c] \cup {randomCode(r)}
                                         ELSE issued[c]]
       ELSE UNCHANGED <<catalog, listing, issued>>
  /\ Meets(resp)
  /\ UNCHANGED <<meta, returned, started>>
  /\ UNCHANGED <<clock, run, sweep, traffic, note, rival>>

\* the metafield write is answered
Write(p, resp) ==
  /\ inv[p].pc = "write"
  /\ ~Responding
  /\ inv' = [inv EXCEPT ![p] = writeStep(@, resp)]
  /\ IF resp.kind = "ok"
       THEN /\ meta' = [meta EXCEPT ![WriteKey(p)] = WelcomeMetafields(inv[p].created)]
            /\ hist' = [q \in Invocations |->
                 IF q = p
                   THEN [hist[p] EXCEPT !.nWrites = @ + 1, !.writeClass = "ok"]
                   ELSE IF inv[q].pc = "lookup" /\ hist[q].customer = WriteKey(p)
                     THEN [hist[q] EXCEPT !.prior = Null]
                     ELSE hist[q]]
       ELSE /\ hist' = [hist EXCEPT ![p] =
                 [@ EXCEPT !.nWrites = @ + 1, !.writeClass = ClassOf(resp)]]
            /\ UNCHANGED meta
  /\ returned' = IF inv'[p].result.status = 200 /\ WriteKey(p) # <<>>
                   THEN [returned EXCEPT ![WriteKey(p)] = inv'[p].result.code]
                   ELSE returned
  /\ Meets(resp)
  /\ UNCHANGED <<catalog, issued, started>>
  /\ UNCHANGED svars
  /\ UNCHANGED <<note, rival>>

\* the responses each call of p can get when the calls may meet the failures F
LookupResponses(p, F) == {CatalogLookup(ReadKey(p))} \cup F
CreateResponses(candidate, F) == {CatalogCreate(candidate)} \cup F
WriteResponses(p, F) ==
  {CatalogWrite(normalizeCustomerIds(inv[p].customerId).gid)}
    \cup F \cup (IF F = {} THEN {} ELSE {GqlErrors})

\* one call of p is answered, by the store or by one of the failures F
LookupCall(p, F) == \E resp \in LookupResponses(p, F) : Lookup(p, resp)
CreateCall(p, r, F) ==
  \E resp \in CreateResponses(randomCode(r), F) : CreateAttempt(p, r, resp)
WriteCall(p, F) == \E resp \in WriteResponses(p, F) : Write(p, resp)

Next ==
  \/ \E p \in Invocations, rawId \in RawIds : Start(p, rawId)
  \/ \E p \in Invocations : Deliver(p)
  \/ \E p \in Invocations : LookupCall(p, Faults)
  \/ \E p \in Invocations, r \in Draws : CreateCall(p, r, Faults)
  \/ \E p \in Invocations : WriteCall(p, Faults)

Spec == Init /\ [][Next]_vars

\* the same handler against a store none of whose calls meets a transient failure
NextReliable ==
  \/ \E p \in Invocations, rawId \in RawIds : Start(p, rawId)
  \/ \E p \in Invocations : Deliver(p)
  \/ \E p \in Invocations : LookupCall(p, {})
  \/ \E p \in Invocations, r \in Draws : CreateCall(p, r, {})
  \/ \E p \in Invocations : WriteCall(p, {})

SpecReliable == Init /\ [][NextReliable]_vars

\* ----- the steps of the maintenance run -----
\* a failed call counts against the failures one run meets
SweepMeets(resp) ==
  IF resp \in SweepFaults
    THEN faults < MaxSweepFaults /\ faults' = faults + 1
    ELSE faults' = faults

\* the run's history once the step from loc to next is taken: the phases
\* entered, the DELETE requests issued, the response sent
Advance(h, loc, next) ==
  LET entered ==
        IF next.pc = "done"
          THEN IF next.result.status = 200
                 THEN (IF loc.stage = "refetch"
                         THEN <<"ComputingStatsAfter", "Reporting">> ELSE <<>>)
                      \o <<"Done">>
                 ELSE IF h.trail = <<>> THEN <<>> ELSE <<"Failed">>
          ELSE IF loc.stage = "none" THEN <<"Fetching">>
          ELSE IF loc.stage = "fetch" /\ next.stage # "fetch"
            THEN <<"ComputingStatsBefore", "Deleting">>
                   \o (IF next.stage = "refetch" THEN <<"Refetching">> ELSE <<>>)
          ELSE IF loc.stage = "delete" /\ next.stage = "refetch" THEN <<"Refetching">>
          ELSE IF loc.stage = "refetch" /\ next.stage = "report"
            THEN <<"ComputingStatsAfter", "Reporting">>
          ELSE <<>>
  IN [h EXCEPT
        !.trail = @ \o entered,
        !.failedIn = IF next.pc = "done" /\ next.result.status # 200 /\ h.trail # <<>>
                       THEN Last(h.trail) ELSE @,
        !.deletes = IF next.pc = "delete" THEN Append(@, next.pending) ELSE @]

\* the withRetry call under way ends its attempt with a response of class c
Attempted(h, loc, next, c, msg) ==
  LET log == Append(h.call, Try(c))
  IN IF next.pc = "sleep"
       THEN [h EXCEPT !.call = log]
       ELSE [h EXCEPT !.call = <<>>,
                      !.called = [ended |-> TRUE, stage |-> loc.stage, log |-> log,
                                  threw |-> c # "ok",
                                  error |-> IF next.pc = "done" THEN next.result.error
                                                                ELSE NoError,
                                  lastError |-> msg]]

\* the scheduler's trigger arrives
SweepTrigger(req, env) ==
  /\ run.pc = "idle"
  /\ run' = sweepStart(req, env, clock)
  /\ sweep' = Advance([NoSweep EXCEPT
                         !.triggeredAt = clock,
                         !.configured = env.SHOP /\ env.ADMIN_TOKEN /\ env.PRICE_RULE_ID],
                      run, run')
  /\ traffic' = IF traffic.on
                  THEN [traffic EXCEPT !.credential =
                          /\ env.CRON_SECRET # <<>>
                          /\ req.authorization = Bearer(env.CRON_SECRET)]
                  ELSE traffic
  /\ UNCHANGED <<listing, clock, faults, note, rival>>
  /\ UNCHANGED ivars

\* the class of a page answer as the store means it, with the failure that
\* is no rate limit and whose text matches the test of withRetry set apart
PageClass(resp) ==
  IF resp.kind = "http" /\ resp.status # T429 /\ isRateLimit(FetchAllMessage(resp))
    THEN "quotes429" ELSE ClassOf(resp)

\* one page request is answered
PageAnswer(resp) ==
  /\ run.pc = "page"
  /\ run' = pageStep(run, resp, clock)
  /\ LET walk == [requests |-> sweep.walk.requests + 1,
                  pages |-> IF resp.kind = "ok"
                              THEN Append(sweep.walk.pages, resp.discount_codes)
                              ELSE sweep.walk.pages]
         walkOver == resp.kind = "ok" /\ (run'.pc # "page" \/ run'.stage # run.stage)
         h0 == [sweep EXCEPT !.walk = IF walkOver \/ resp.kind # "ok" THEN NoWalk ELSE walk]
         h1 == IF resp.kind # "ok"
                 THEN Attempted(h0, run, run', ClassOf(resp), FetchAllMessage(resp))
               ELSE IF walkOver
                 THEN [Attempted(h0, run, run', "ok", NoError) EXCEPT
                         !.walked = [ended |-> TRUE, requests |-> walk.requests,
                                     pages |-> walk.pages,
                                     result |-> IF run.stage = "fetch"
                                                  THEN run'.codes
                                                  ELSE run'.remainingCodes],
                         !.fetched = IF run.stage = "fetch" THEN run'.codes ELSE @,
                         !.filterNow = IF run.stage = "fetch" THEN clock ELSE @,
                         !.refetched = IF run.stage = "refetch"
                                         THEN run'.remainingCodes ELSE @]
               ELSE h0
     IN sweep' = Advance(h1, run, run')
  /\ traffic' = IF traffic.on
                  THEN [traffic EXCEPT !.pages =
                          Append(@, [stage |-> run.stage, path |-> run.nextURL,
                                     class |-> PageClass(resp)])]
                  ELSE traffic
  /\ UNCHANGED <<listing, clock, note, rival>>
  /\ UNCHANGED ivars

\* the class of the attempt a DELETE answered resp makes: an ok answer
\* whose body does not parse is a call that threw
DeleteClass(resp) ==
  IF resp.kind = "ok" /\ ~resp.json THEN "unparsable" ELSE ClassOf(resp)

\* the DELETE of one code is answered: the store has removed the code
\* whenever its answer is ok
DeleteAnswer(id, resp) ==
  /\ run.pc = "delete"
  /\ id \in run.pending
  /\ run' = deleteStep(run, resp)
  /\ listing' = IF resp.kind = "ok"
                  THEN SelectSeq(listing, LAMBDA c : c.id # id) ELSE listing
  /\ catalog' = CodesOf(listing')
  /\ LET h0 == [sweep EXCEPT !.removed = IF resp.kind = "ok" THEN Append(@, id) ELSE @]
     IN sweep' = Advance(Attempted(h0, run, run', DeleteClass(resp), DeleteError(resp)),
                         run, run')
  /\ UNCHANGED <<clock, traffic, note, rival>>
  /\ UNCHANGED <<meta, inv, hist, issued, returned, started>>

\* the wait of withRetry is over
SleepOver ==
  /\ run.pc = "sleep"
  /\ run' = sleepStep(run)
  /\ sweep' = Advance([sweep EXCEPT !.call = Append(@, Wait(run.delay))], run, run')
  /\ traffic' = IF traffic.on THEN [traffic EXCEPT !.waits = Append(@, run.delay)]
                              ELSE traffic
  /\ UNCHANGED <<listing, clock, faults, note, rival>>
  /\ UNCHANGED ivars

\* the reporting sink answers, or the request to it fails
SlackAnswer(outcome) ==
  /\ run.pc = "slack"
  /\ run' = slackStep(run, outcome)
  /\ sweep' = Advance([sweep EXCEPT !.sink = outcome], run, run')
  /\ UNCHANGED <<listing, clock, faults, traffic, note, rival>>
  /\ UNCHANGED ivars

\* a day passes while the initial fetch is under way: the run reads the
\* clock at the trigger and at the age test, and not after
Tick ==
  /\ run.stage = "fetch"
  /\ clock < LastDay
  /\ clock' = clock + 1
  /\ UNCHANGED <<listing, run, sweep, faults, traffic, note, rival>>
  /\ UNCHANGED ivars

\* the responses a call of the run can get
PageResponses == {ServePage(run.nextURL)} \cup SweepFaults
DeleteResponses(id) == StoreDelete(id) \cup SweepFaults

\* one call of the run is answered, by the store or by a failure that
\* counts against the failures of the run
PageCall ==
  /\ run.pc = "page"
  /\ \E resp \in PageResponses : PageAnswer(resp) /\ SweepMeets(resp)
DeleteCall ==
  \E id \in run.pending :
    \E resp \in DeleteResponses(id) : DeleteAnswer(id, resp) /\ SweepMeets(resp)

\* the price rule holds the first n codes of the inventory; no issuance runs
InitSweep ==
  /\ listing \in {SubSeq(Inventory, 1, n) : n \in 0..Len(Inventory)}
  /\ catalog = CodesOf(listing)
  /\ meta = [c \in Customers |-> [code |-> NoMeta, used |-> NoMeta, sent |-> NoMeta]]
  /\ inv = [p \in Invocations |-> IdleInvocation]
  /\ hist = [p \in Invocations |-> NoHistory]
  /\ issued = [c \in Customers |-> {}]
  /\ returned = [c \in Customers |-> Null]
  /\ started = 0
  /\ faults = 0
  /\ clock = Today
  /\ run = SweepIdle
  /\ sweep = NoSweep
  /\ traffic = NoTraffic
  /\ note = NoteIdle
  /\ rival = SweepIdle

NextSweep ==
  \/ \E req \in Requests, env \in Envs : SweepTrigger(req, env)
  \/ PageCall
  \/ DeleteCall
  \/ SleepOver
  \/ \E outcome \in SinkOutcomes : SlackAnswer(outcome)
  \/ Tick

SpecSweep == InitSweep /\ [][NextSweep]_vars

\* ----- issuance beside maintenance -----
\* one handler instance serves the issuance requests in turn while one
\* maintenance run is served; no call meets a transient failure
Servers == {1}

\* a fuller price rule: the inventory and a sixth code
Stock == Inventory \o <<DiscountCode(6, "MISHMUSH-F", 2, 3)>>

PageServed ==
  /\ run.pc = "page"
  /\ PageAnswer(ServePage(run.nextURL))
  /\ UNCHANGED faults
DeleteServed ==
  /\ \E id \in run.pending : \E resp \in StoreDelete(id) : DeleteAnswer(id, resp)
  /\ UNCHANGED faults

InitLifecycle ==
  /\ listing \in {<<>>, Stock}
  /\ catalog = CodesOf(listing)
  /\ meta = [c \in Customers |-> [code |-> NoMeta, used |-> NoMeta, sent |-> NoMeta]]
  /\ inv = [p \in Invocations |-> IdleInvocation]
  /\ hist = [p \in Invocations |-> NoHistory]
  /\ issued = [c \in Customers |-> {}]
  /\ returned = [c \in Customers |-> Null]
  /\ started = 0
  /\ faults = 0
  /\ clock = Today
  /\ run = SweepIdle
  /\ sweep = NoSweep
  /\ traffic = Recording
  /\ note = NoteIdle
  /\ rival = SweepIdle

NextLifecycle ==
  \/ \E p \in Servers, req \in IssuanceRequests, env \in IssuanceEnvs : Receive(p, req, env)
  \/ \E p \in Servers : Deliver(p)
  \/ \E p \in Servers : LookupCall(p, {})
  \/ \E p \in Servers, r \in Draws : CreateCall(p, r, {})
  \/ \E p \in Servers : WriteCall(p, {})
  \/ \E req \in Requests, env \in Envs : SweepTrigger(req, env)
  \/ PageServed
  \/ DeleteServed
  \/ \E outcome \in SinkOutcomes : SlackAnswer(outcome)

SpecLifecycle == InitLifecycle /\ [][NextLifecycle]_vars

\* ----- maintenance against a store that fails at will -----
\* every page request and every DELETE may be rate limited or meet a server
\* error, any number of times; a page request of the initial walk may also
\* meet a server error whose body quotes the digits 429, up to MaxQuoted
\* times; every call is answered and every wait ends
StormFaults == {Http(T429, <<>>), Http(T500, <<>>), Http(T500, T429)}
StormMeets(resp) ==
  IF resp = Http(T500, T429)
    THEN run.stage = "fetch" /\ faults < MaxQuoted /\ faults' = faults + 1
    ELSE faults' = faults

PageStorm ==
  /\ run.pc = "page"
  /\ \E resp \in {ServePage(run.nextURL)} \cup StormFaults :
       PageAnswer(resp) /\ StormMeets(resp)
DeleteStorm ==
  \E id \in run.pending :
    \E resp \in StoreDelete(id) \cup StormFaults :
      DeleteAnswer(id, resp) /\ StormMeets(resp)
SinkAnswers == \E outcome \in SinkOutcomes : SlackAnswer(outcome)

\* the price rule holds none or four codes of the inventory
InitStorm ==
  /\ listing \in {SubSeq(Inventory, 1, n) : n \in {0, 4}}
  /\ catalog = CodesOf(listing)
  /\ meta = [c \in Customers |-> [code |-> NoMeta, used |-> NoMeta, sent |-> NoMeta]]
  /\ inv = [p \in Invocations |-> IdleInvocation]
  /\ hist = [p \in Invocations |-> NoHistory]
  /\ issued = [c \in Customers |-> {}]
  /\ returned = [c \in Customers |-> Null]
  /\ started = 0
  /\ faults = 0
  /\ clock = Today
  /\ run = SweepIdle
  /\ sweep = NoSweep
  /\ traffic = Recording
  /\ note = NoteIdle
  /\ rival = SweepIdle

NextStorm ==
  \/ \E req \in Requests, env \in Envs : SweepTrigger(req, env)
  \/ PageStorm
  \/ DeleteStorm
  \/ SleepOver
  \/ SinkAnswers

SpecStorm ==
  /\ InitStorm
  /\ [][NextStorm]_vars
  /\ WF_vars(PageStorm)
  /\ WF_vars(DeleteStorm)
  /\ WF_vars(SleepOver)
  /\ WF_vars(SinkAnswers)

\* ----- the notify-interest invocation -----
\* the requests the step from loc to next issues: the handler rests at the
\* await of the request it has just made
Requested(loc, next) ==
  [next EXCEPT !.fetches = IF next.pc = "variant" THEN @ + 1 ELSE @,
               !.sends = IF next.pc = "send" THEN @ + 1 ELSE @]

\* a request arrives at one of the two editions
NoteTrigger(edition, req, env) ==
  /\ note.pc = "idle"
  /\ note.served < MaxNotes
  /\ note' = Requested(note, notifyStart(edition, note, req, env))
  /\ UNCHANGED faults
  /\ UNCHANGED ivars
  /\ UNCHANGED svars
  /\ UNCHANGED rival

\* the store answers the productVariant query
VariantAnswer(resp) ==
  /\ note.pc = "variant"
  /\ note' = Requested(note, variantStep(note, resp))
  /\ UNCHANGED faults
  /\ UNCHANGED ivars
  /\ UNCHANGED svars
  /\ UNCHANGED rival

\* the email provider answers the send request, or the request fails
SendAnswer(outcome) ==
  /\ note.pc = "send"
  /\ note' = Requested(note, sendStep([note EXCEPT !.answers = Append(@, outcome)],
                                      outcome))
  /\ UNCHANGED faults
  /\ UNCHANGED ivars
  /\ UNCHANGED svars
  /\ UNCHANGED rival

\* the response reaches the caller
NoteDeliver ==
  /\ note.pc = "done"
  /\ note' = [NoteIdle EXCEPT !.served = note.served + 1]
  /\ UNCHANGED faults
  /\ UNCHANGED ivars
  /\ UNCHANGED svars
  /\ UNCHANGED rival

VariantCall ==
  /\ note.pc = "variant"
  /\ \E resp \in {VariantLookup(note.variantGid)} \cup VariantFaults : VariantAnswer(resp)

NextNotify ==
  \/ \E edition \in Editions, req \in NoteRequests, env \in NoteEnvs :
       NoteTrigger(edition, req, env)
  \/ VariantCall
  \/ \E outcome \in SendOutcomes : SendAnswer(outcome)
  \/ NoteDeliver

SpecNotify == Init /\ [][NextNotify]_vars

\* ----- issuance beside a maintenance run, over codes that age -----
\* the price rule holds a code 9 days old and a code exactly 8 days old; the
\* known customer has no welcome code or was issued the older one
Shelf == SubSeq(Stock, 5, 6)

\* the ids an inbound event carries for a customer the store knows
Regulars ==
  {r \in RawIds : r # <<>> /\ normalizeCustomerIds(r).numericId \in Customers}

InitAgeing ==
  /\ listing = Shelf
  /\ catalog = CodesOf(listing)
  /\ meta \in [Customers -> {[code |-> NoMeta, used |-> NoMeta, sent |-> NoMeta],
                              WelcomeMetafields(Shelf[1].code)}]
  /\ inv = [p \in Invocations |-> IdleInvocation]
  /\ hist = [p \in Invocations |-> NoHistory]
  /\ issued = [c \in Customers |-> {}]
  /\ returned = [c \in Customers |-> Null]
  /\ started = 0
  /\ faults = 0
  /\ clock = Today
  /\ run = SweepIdle
  /\ sweep = NoSweep
  /\ traffic = Recording
  /\ note = NoteIdle
  /\ rival = SweepIdle

\* a day passes after the age test, while the run deletes and reads again
Elapse ==
  /\ run.stage \in {"delete", "refetch"}
  /\ run.pc \in {"delete", "page", "sleep"}
  /\ clock < LastDay
  /\ clock' = clock + 1
  /\ UNCHANGED <<listing, run, sweep, faults, traffic, note, rival>>
  /\ UNCHANGED ivars

NextAgeing ==
  \/ \E p \in Servers, rawId \in Regulars : Start(p, rawId)
  \/ \E p \in Servers : Deliver(p)
  \/ \E p \in Servers : LookupCall(p, {})
  \/ \E p \in Servers, r \in Draws : CreateCall(p, r, {})
  \/ \E p \in Servers : WriteCall(p, {})
  \/ \E req \in Requests, env \in Envs : SweepTrigger(req, env)
  \/ PageServed
  \/ DeleteServed
  \/ \E outcome \in SinkOutcomes : SlackAnswer(outcome)
  \/ Elapse

SpecAgeing == InitAgeing /\ [][NextAgeing]_vars

\* ----- two maintenance runs of the deployment, overlapping -----
\* the second run goes through the same handler, against the same price rule
RivalTrigger(req, env) ==
  /\ rival.pc = "idle"
  /\ rival' = sweepStart(req, env, clock)
  /\ UNCHANGED <<listing, clock, run, sweep, traffic, faults, note>>
  /\ UNCHANGED ivars

RivalPage ==
  /\ rival.pc = "page"
  /\ rival' = pageStep(rival, ServePage(rival.nextURL), clock)
  /\ UNCHANGED <<listing, clock, run, sweep, traffic, faults, note>>
  /\ UNCHANGED ivars

RivalDelete ==
  /\ rival.pc = "delete"
  /\ \E id \in rival.pending :
       \E resp \in StoreDelete(id) :
         /\ rival' = deleteStep(rival, resp)
         /\ listing' = IF resp.kind = "ok"
                         THEN SelectSeq(listing, LAMBDA c : c.id # id) ELSE listing
  /\ catalog' = CodesOf(listing')
  /\ UNCHANGED <<clock, run, sweep, traffic, faults, note>>
  /\ UNCHANGED <<meta, inv, hist, issued, returned, started>>

RivalSlack(outcome) ==
  /\ rival.pc = "slack"
  /\ rival' = slackStep(rival, outcome)
  /\ UNCHANGED <<listing, clock, run, sweep, traffic, faults, note>>
  /\ UNCHANGED ivars

\* the price rule holds the inventory: three of its five codes are stale
InitOverlap ==
  /\ listing = Inventory
  /\ catalog = CodesOf(listing)
  /\ meta = [c \in Customers |-> [code |-> NoMeta, used |-> NoMeta, sent |-> NoMeta]]
  /\ inv = [p \in Invocations |-> IdleInvocation]
  /\ hist = [p \in Invocations |-> NoHistory]
  /\ issued = [c \in Customers |-> {}]
  /\ returned = [c \in Customers |-> Null]
  /\ started = 0
  /\ faults = 0
  /\ clock = Today
  /\ run = SweepIdle
  /\ sweep = NoSweep
  /\ traffic = NoTraffic
  /\ note = NoteIdle
  /\ rival = SweepIdle

NextOverlap ==
  \/ \E req \in Requests, env \in Envs : SweepTrigger(req, env)
  \/ PageServed
  \/ DeleteServed
  \/ \E outcome \in SinkOutcomes : SlackAnswer(outcome)
  \/ \E req \in Requests, env \in Envs : RivalTrigger(req, env)
  \/ RivalPage
  \/ RivalDelete
  \/ \E outcome \in SinkOutcomes : RivalSlack(outcome)

SpecOverlap == InitOverlap /\ [][NextOverlap]_vars

\* ----- the claims -----
AllConflicts(t, n) == \A k \in 1..n : t[k] = "conflict"
\* the first n create attempts met a uniqueness conflict and attempt n+1 succeeded
CollidedThenOk(t, n) == Len(t) > n /\ AllConflicts(t, n) /\ t[n + 1] = "ok"

\* C1: an issuance that starts after a successful issuance for the same
\* customer returned code k, with no write to the customer's annotation
\* landing in between, returns k with reused = true when it succeeds.
C1_Idempotency ==
  \A q \in Invocations :
    (inv[q].pc = "done" /\ hist[q].prior # Null /\ inv[q].result.status = 200)
      => inv[q].result.code = hist[q].prior /\ inv[q].result.reused = TRUE

\* C2: a customer's welcomeCode annotation, once it holds a non-empty code,
\* is never overwritten with a different code, in any interleaving.
C2_NeverOverwritten ==
  [][\A c \in Customers :
       IsCode(meta[c].code) => meta'[c].code = meta[c].code]_vars

\* C3: over all issuance invocations for one customer, at most one discount
\* code is ever created in the catalog on that customer's behalf.
C3_AtMostOneCreated == \A c \in Customers : Cardinality(issued[c]) <= 1

\* C4: when the idempotency read finds the annotation with a non-empty code,
\* the invocation responds at once with that code and reused = true, having
\* made no create attempt and no annotation write.
C4_ReuseShortCircuit ==
  \A p \in Invocations :
    (hist[p].readClass = "ok" /\ hist[p].readValue # Null)
      => /\ inv[p].pc = "done"
         /\ inv[p].result = Success(hist[p].readValue, TRUE)
         /\ hist[p].nReads = 1 /\ hist[p].nCreates = 0 /\ hist[p].nWrites = 0

C4_Witness ==
  \E p \in Invocations :
    /\ hist[p].readClass = "ok" /\ hist[p].readValue # Null
    /\ inv[p].result.status = 200 /\ inv[p].result.reused = TRUE
    /\ catalog # {}

\* C5 as stated: after N < 3 uniqueness conflicts and a successful attempt
\* N+1 the invocation succeeds with the registered code, reused = false,
\* and N+1 create attempts.
C5_SucceedsAfterCollisions ==
  \A p \in Invocations : \A n \in 0..(MaxTries - 1) :
    (inv[p].pc = "done" /\ CollidedThenOk(hist[p].tries, n))
      => /\ inv[p].result = Success(hist[p].registered, FALSE)
         /\ hist[p].nCreates = n + 1

\* C5, amended: while its attempts meet uniqueness conflicts and fewer than
\* 3 were made the invocation goes on to another attempt; after N < 3
\* conflicts and a successful attempt N+1 it makes no further attempt
\* (exactly N+1) and issues one annotation write; it returns the code
\* registered by attempt N+1 with reused = false if that write succeeds,
\* and fails if the write fails.
C5_CollisionRetry ==
  \A p \in Invocations :
    /\ (hist[p].tries # <<>> /\ Len(hist[p].tries) < MaxTries
          /\ AllConflicts(hist[p].tries, Len(hist[p].tries)))
         => inv[p].pc = "create"
    /\ \A n \in 0..(MaxTries - 1) :
         CollidedThenOk(hist[p].tries, n)
           => /\ Len(hist[p].tries) = n + 1 /\ hist[p].nCreates = n + 1
              /\ inv[p].pc \in {"write", "done"}
              /\ inv[p].pc = "write" => inv[p].created = hist[p].registered
              /\ inv[p].pc = "done" =>
                   /\ hist[p].nWrites = 1
                   /\ IF hist[p].writeClass = "ok"
                        THEN inv[p].result = Success(hist[p].registered, FALSE)
                        ELSE inv[p].result.status = 500

C5_Witness ==
  \E p \in Invocations :
    /\ inv[p].pc = "done"
    /\ hist[p].tries = <<"conflict", "conflict", "ok">>
    /\ hist[p].writeClass = "ok"
    /\ inv[p].result = Success(hist[p].registered, FALSE)

\* C6: when all 3 create attempts meet a uniqueness conflict the invocation
\* fails with the exhausted-retries error, with no 4th attempt and no
\* annotation write.
C6_Exhaustion ==
  \A p \in Invocations :
    (Len(hist[p].tries) >= MaxTries /\ AllConflicts(hist[p].tries, MaxTries))
      => /\ inv[p].pc = "done"
         /\ inv[p].result = Failure(500, Exhausted)
         /\ hist[p].nCreates = MaxTries
         /\ hist[p].nWrites = 0

C6_Witness ==
  \E p \in Invocations :
    /\ hist[p].tries = <<"conflict", "conflict", "conflict">>
    /\ inv[p].result.error = Exhausted

\* C7: a create attempt that fails with a class other than uniqueness
\* conflict is the invocation's last call: the invocation has failed, no
\* further create attempt and no annotation write follow.
C7_AbortOnOtherFailure ==
  \A p \in Invocations : \A k \in 1..Len(hist[p].tries) :
    hist[p].tries[k] \notin {"ok", "conflict"}
      => /\ k = Len(hist[p].tries)
         /\ inv[p].pc = "done" /\ inv[p].result.status = 500
         /\ hist[p].nWrites = 0

\* C8: after a failed idempotency read the invocation goes on to creation
\* if and only if the failure is of the not-found class; any other class
\* fails the invocation with no create attempt and no annotation write.
C8_LookupFailure ==
  \A p \in Invocations :
    /\ hist[p].readClass = "notFound"
         => (inv[p].pc = "done" => hist[p].nCreates > 0)
    /\ hist[p].readClass \in {"rateLimited", "generic", "conflict"}
         => /\ inv[p].pc = "done" /\ inv[p].result.status = 500
            /\ hist[p].nCreates = 0 /\ hist[p].nWrites = 0

\* C9: one invocation performs at most 1 idempotency read, at most 3 create
\* attempts and at most 1 annotation write, on every path.
C9_CallBudget ==
  \A p \in Invocations :
    hist[p].nReads <= 1 /\ hist[p].nCreates <= MaxTries /\ hist[p].nWrites <= 1

C9_Witness ==
  \E p \in Invocations :
    hist[p].nReads = 1 /\ hist[p].nCreates = MaxTries /\ hist[p].nWrites = 1

\* C10: within one invocation the idempotency read has completed before any
\* create attempt is issued, and the annotation write is issued only after
\* a create attempt of the same invocation succeeded.
C10_CallOrder ==
  \A p \in Invocations :
    /\ (inv[p].pc = "create" \/ hist[p].nCreates > 0)
         => hist[p].nReads = 1 /\ hist[p].readClass # "none"
    /\ (inv[p].pc = "write" \/ hist[p].nWrites > 0)
         => /\ hist[p].tries # <<>>
            /\ hist[p].tries[Len(hist[p].tries)] = "ok"
            /\ hist[p].registered # Null

C10_Witness ==
  \E p \in Invocations :
    /\ hist[p].nReads = 1 /\ hist[p].nCreates = 2 /\ hist[p].nWrites = 1
    /\ hist[p].tries = <<"conflict", "ok">>

\* the numeric ids of up to MaxIdLen digits
IdDigits == {"0", "1", "7"}
NumericIds == UNION {[1..n -> IdDigits] : n \in 1..MaxIdLen}

\* both forms of every numeric id give the canonical pair, and so does each
\* component of the pair
NormalizesAlike ==
  \A n \in NumericIds :
    LET pair == [numericId |-> n, gid |-> <<"G">> \o n]
    IN /\ normalizeCustomerIds(n) = pair
       /\ normalizeCustomerIds(<<"G">> \o n) = pair
       /\ normalizeCustomerIds(pair.numericId) = pair
       /\ normalizeCustomerIds(pair.gid) = pair

\* C11: for every numeric id n the raw form n and the namespaced form
\* gid://shopify/Customer/n normalize to the same pair (n, gid://.../n);
\* normalizing either component of the pair again gives the pair; and the
\* idempotency read and the annotation write of an invocation address the
\* same customer record whichever form arrived.
C11_Normalization ==
  /\ NormalizesAlike
  /\ \A p \in Invocations :
       (inv[p].customerId # <<>> /\ ReadKey(p) \in Customers)
         => WriteKey(p) = ReadKey(p)

\* a raw and a namespaced request for one customer are both past the read
C11_Witness ==
  \E p, q \in Invocations :
    /\ inv[p].customerId = <<"1">> /\ inv[q].customerId = <<"G", "1">>
    /\ hist[p].nReads = 1 /\ hist[q].nReads = 1
    /\ hist[p].readClass = "ok" /\ hist[q].readClass = "ok"
    /\ ReadKey(p) = ReadKey(q) /\ WriteKey(p) = WriteKey(q)

\* ----- the claims on maintenance -----
RECURSIVE Flatten(_)
Flatten(pages) == IF pages = <<>> THEN <<>> ELSE Head(pages) \o Flatten(Tail(pages))

RECURSIVE Pow2(_)
Pow2(n) == IF n = 0 THEN 1 ELSE 2 * Pow2(n - 1)

\* the attempts of a withRetry call, and its waits, in order
TriesOf(log) == SelectSeq(log, LAMBDA e : e.t = "try")
WaitsOf(log) == SelectSeq(log, LAMBDA e : e.t = "wait")

\* C12: a walk whose page requests all succeed over a chain of k >= 1 pages
\* returns the concatenation of the k pages' items in page order, which is
\* the price rule's listing, after exactly k page requests; the page with
\* no continuation reference ends the walk successfully.
C12_PaginationComplete ==
  sweep.walked.ended =>
    /\ Len(sweep.walked.pages) >= 1
    /\ sweep.walked.requests = Len(sweep.walked.pages)
    /\ sweep.walked.result = Flatten(sweep.walked.pages)
    /\ (sweep.removed = <<>>
          \/ "ComputingStatsAfter" \in {sweep.trail[k] : k \in 1..Len(sweep.trail)})
         => sweep.walked.result = listing

\* a walk over three pages returned all five codes
C12_Witness ==
  /\ sweep.walked.ended
  /\ Len(sweep.walked.pages) = 3 /\ sweep.walked.requests = 3
  /\ Len(sweep.walked.result) = 5

\* the ids of the codes of a sequence, in order, and the ids a run requested
\* a DELETE for
IdsOf(codes) == [k \in 1..Len(codes) |-> codes[k].id]
RequestedIds == UNION {sweep.deletes[k] : k \in 1..Len(sweep.deletes)}
\* the codes of the initial fetch whose age at the age test exceeds the threshold
StaleFetched ==
  SelectSeq(sweep.fetched, LAMBDA c : sweep.filterNow - c.created_at > DAYS_TO_KEEP)
Succeeded == run.pc = "done" /\ run.result.status = 200

\* C13: in a run that completes successfully a DELETE is issued for a code
\* if and only if the code was in the initial fetch and its age at the age
\* test is strictly more than 8 days, whatever its usage count; the reported
\* deleted count is the number of those codes.
C13_RetentionThreshold ==
  Succeeded =>
    /\ RequestedIds = {StaleFetched[k].id : k \in 1..Len(StaleFetched)}
    /\ run.result.deleted = Len(StaleFetched)
    /\ "deleted" \in run.result.fields

\* a successful run met a code exactly 8 days old and used codes past the threshold
C13_Witness ==
  /\ Succeeded
  /\ \E k \in 1..Len(sweep.fetched) : sweep.filterNow - sweep.fetched[k].created_at = 8
  /\ \E k \in 1..Len(sweep.fetched) :
       /\ sweep.fetched[k].usage_count > 0
       /\ sweep.fetched[k].id \in RequestedIds
  /\ run.result.deleted = 2

\* the withRetry calls of the run: the one that ended last and the one under way
RateLimitedThenOk(tries, k) ==
  /\ Len(tries) = k + 1
  /\ \A i \in 1..k : tries[i].class = "rateLimited"
  /\ tries[k + 1].class = "ok"
\* k failed attempts, each followed by its wait of d * 2^(i-1), then a last attempt
Backoff(k, last) ==
  [i \in 1..(2 * k + 1) |->
     IF i = 2 * k + 1 THEN Try(last)
     ELSE IF i % 2 = 1 THEN Try("rateLimited")
     ELSE Wait(DefaultDelay * Pow2((i \div 2) - 1))]

\* C14: a withRetry call whose action fails with a rate limit k <= 3 times
\* in a row and then succeeds returns after exactly k waits of d, 2d, 4d, ...
\* (d = 1000), each wait between the failed attempt and the next attempt,
\* and k + 1 attempts.
C14_BackoffProgression ==
  \A k \in 0..DefaultRetries :
    (sweep.called.ended /\ RateLimitedThenOk(TriesOf(sweep.called.log), k))
      => /\ sweep.called.log = Backoff(k, "ok")
         /\ ~sweep.called.threw

\* a call returned after three rate-limited attempts and waits of 1000, 2000, 4000
C14_Witness ==
  /\ sweep.called.ended /\ ~sweep.called.threw
  /\ Len(TriesOf(sweep.called.log)) = 4
  /\ WaitsOf(sweep.called.log) = <<Wait(1000), Wait(2000), Wait(4000)>>

\* C15 as stated: one withRetry call makes at most 3 attempts of the wrapped action.
C15_ThreeAttempts ==
  /\ Len(TriesOf(sweep.call)) <= 3
  /\ Len(TriesOf(sweep.called.log)) <= 3

\* the sum of the delays of a log's waits
RECURSIVE TotalWait(_)
TotalWait(log) ==
  IF log = <<>> THEN 0 ELSE Head(log).delay + TotalWait(Tail(log))

\* C15, amended: one withRetry call with the default budget makes at most 4
\* attempts of the wrapped action (the first and 3 retries) and waits at
\* most 1000 + 2000 + 4000 in total; when 4 attempts in a row fail with a
\* rate limit it stops and propagates the failure of the 4th.
C15_BoundedRetry ==
  /\ Len(TriesOf(sweep.call)) <= DefaultRetries
  /\ Len(TriesOf(sweep.called.log)) <= DefaultRetries + 1
  /\ TotalWait(sweep.call) <= 7 * DefaultDelay
  /\ TotalWait(sweep.called.log) <= 7 * DefaultDelay
  /\ (Len(TriesOf(sweep.called.log)) = DefaultRetries + 1
        /\ \A i \in 1..(DefaultRetries + 1) :
              TriesOf(sweep.called.log)[i].class = "rateLimited")
       => /\ sweep.called.threw
          /\ sweep.called.log = Backoff(DefaultRetries, "rateLimited")
          /\ sweep.called.error = sweep.called.lastError
          /\ run.pc = "done" /\ run.result.status = 500

\* four attempts in a row were rate limited and the call threw
C15_Witness ==
  /\ sweep.called.ended /\ sweep.called.threw
  /\ sweep.called.log = Backoff(DefaultRetries, "rateLimited")
  /\ TotalWait(sweep.called.log) = 7000

\* C16: an attempt that fails with a class other than rate limit is the
\* last of its withRetry call: no wait and no further attempt follow it, and
\* the call throws that failure; the failure of an exhausted call is the
\* failure of its last attempt.
C16_OtherFailurePropagates ==
  /\ \A i \in 1..Len(sweep.call) :
       sweep.call[i].t = "try" => sweep.call[i].class = "rateLimited"
  /\ \A i \in 1..(Len(sweep.called.log) - 1) :
       sweep.called.log[i].t = "try" => sweep.called.log[i].class = "rateLimited"
  /\ sweep.called.threw => sweep.called.error = sweep.called.lastError

\* the ids of the stale codes of the initial fetch, in fetch order
StaleIds == IdsOf(StaleFetched)
\* the place of an id among the stale codes, 0 when it is not one of them
StaleIndex(id) ==
  IF \E i \in 1..Len(StaleIds) : StaleIds[i] = id
    THEN CHOOSE i \in 1..Len(StaleIds) : StaleIds[i] = id
    ELSE 0
\* the place among the stale codes of the code the j-th DELETE request names
RequestIndex(j) == StaleIndex(CHOOSE id \in sweep.deletes[j] : TRUE)

\* C17: at most one DELETE of the run is in flight; the DELETE for a stale
\* code (its retries included) is acknowledged before the DELETE for the next
\* stale code is issued; DELETEs are issued in the order of the initial fetch.
C17_SequentialDeletes ==
  /\ Cardinality(run.pending) <= 1
  /\ \A j \in 1..Len(sweep.deletes) : Cardinality(sweep.deletes[j]) = 1
  /\ Len(sweep.deletes) > 0 => RequestIndex(1) = 1
  /\ \A j \in 1..(Len(sweep.deletes) - 1) :
       RequestIndex(j + 1) \in {RequestIndex(j), RequestIndex(j) + 1}
  /\ sweep.removed = SubSeq(StaleIds, 1, Len(sweep.removed))
  /\ Len(sweep.deletes) > 0 =>
       RequestIndex(Len(sweep.deletes)) \in {Len(sweep.removed), Len(sweep.removed) + 1}
  /\ run.pc = "delete" => run.pending = {StaleIds[Len(sweep.removed) + 1]}

\* two stale codes were deleted one after the other, the second after a retry
C17_Witness ==
  /\ sweep.removed = <<1, 3>>
  /\ Len(sweep.deletes) >= 4
  /\ run.pc = "delete"

\* C18: when the delete of the j-th of m stale codes fails, the run is
\* Failed: no DELETE was issued for stale codes j+1..m, no re-fetch and no
\* report were made, the payload carries the error and the run's timestamp
\* and neither deleted nor stats, and the j-1 codes deleted stay deleted.
\* The j-th code itself is gone exactly when the store removed it and the
\* body of its answer could not be read.
C18_PartialFailure ==
  sweep.failedIn = "Deleting" =>
    LET j == RequestIndex(Len(sweep.deletes))
    IN /\ run.pc = "done"
       /\ run.result = SweepFailure(sweep.called.lastError, sweep.triggeredAt)
       /\ run.result.fields = {"error", "timestamp"}
       /\ sweep.called.threw /\ sweep.called.stage = "delete"
       /\ j \in 1..Len(StaleIds)
       /\ RequestedIds = {StaleIds[i] : i \in 1..j}
       /\ Last(sweep.trail) = "Failed"
       /\ \A k \in 1..Len(sweep.trail) :
            sweep.trail[k] \notin {"Refetching", "ComputingStatsAfter", "Reporting"}
       /\ sweep.sink = "none" /\ sweep.walked.result = sweep.fetched
       /\ run.deleted = j - 1
       /\ sweep.removed = SubSeq(StaleIds, 1, IF sweep.called.lastError = UnexpectedEnd
                                               THEN j ELSE j - 1)
       /\ ListedIds = {sweep.fetched[k].id : k \in 1..Len(sweep.fetched)}
                        \ {sweep.removed[i] : i \in 1..Len(sweep.removed)}

\* the delete of the 2nd of 3 stale codes failed once its retries were used up
C18_Witness ==
  /\ sweep.failedIn = "Deleting"
  /\ Len(StaleIds) = 3 /\ sweep.removed = <<1>>
  /\ Len(TriesOf(sweep.called.log)) = DefaultRetries + 1
  /\ run.result.status = 500

InTrail(phase) == \E k \in 1..Len(sweep.trail) : sweep.trail[k] = phase

\* C19: once fetch, stats, deletion and re-fetch have succeeded the run
\* succeeds whatever the reporting sink answers, and the payload is the one
\* computed before the sink was called: the run's timestamp, the number of
\* codes deleted, the stats of the initial fetch and of the re-fetch.
C19_ReportingAbsorbed ==
  InTrail("Reporting") =>
    /\ run.pc \in {"slack", "done"}
    /\ run.pc = "slack" => sweep.sink = "none"
    /\ run.pc = "done" =>
         /\ Last(sweep.trail) = "Done"
         /\ run.result =
              SweepSuccess(sweep.triggeredAt, Len(sweep.removed),
                           getDiscountCodeStats(sweep.fetched),
                           getDiscountCodeStats(sweep.refetched))

\* the request to the sink failed after two codes were deleted, and the run succeeded
C19_Witness ==
  /\ sweep.sink = "rejected"
  /\ run.pc = "done" /\ run.result.status = 200
  /\ run.result.deleted = 2 /\ run.result.statsAfter.total = 2

PhaseOrder ==
  <<"Fetching", "ComputingStatsBefore", "Deleting", "Refetching",
    "ComputingStatsAfter", "Reporting", "Done">>

\* a step of the run that ends it Failed
FailingStep ==
  (PageCall \/ DeleteCall \/ \E outcome \in SinkOutcomes : SlackAnswer(outcome))
    /\ run'.pc = "done" /\ run'.result.status # 200
\* any step of the run
RunStep ==
  \/ \E req \in Requests, env \in Envs : SweepTrigger(req, env)
  \/ PageCall \/ DeleteCall \/ SleepOver
  \/ \E outcome \in SinkOutcomes : SlackAnswer(outcome)

\* the phases of a run are entered in the order Fetching,
\* ComputingStatsBefore, Deleting, Refetching, ComputingStatsAfter,
\* Reporting, Done, none skipped or repeated, possibly cut short by Failed;
\* the re-fetch begins only when every stale code's delete is acknowledged;
\* a run waiting on a page or a delete can fail, a run in Reporting cannot;
\* Done and Failed are terminal
PhasesInOrder ==
  LET n == Len(sweep.trail)
  IN /\ n > 0 =>
          \/ sweep.trail = SubSeq(PhaseOrder, 1, n)
          \/ /\ Last(sweep.trail) = "Failed"
             /\ SubSeq(sweep.trail, 1, n - 1) = SubSeq(PhaseOrder, 1, n - 1)
             /\ n >= 2 /\ sweep.trail[n - 1] \notin {"Reporting", "Done"}
     /\ InTrail("Refetching") =>
          run.pending = {} /\ sweep.removed = StaleIds
     /\ (run.pc \in {"page", "delete"} /\ faults < MaxSweepFaults) => ENABLED FailingStep
     /\ run.pc = "slack" => ~ENABLED FailingStep
     /\ (n > 0 /\ Last(sweep.trail) \in {"Done", "Failed"})
          => run.pc = "done" /\ ~ENABLED RunStep
     /\ (n > 0 /\ run.pc = "done") => Last(sweep.trail) \in {"Done", "Failed"}

\* the two phases that compute stats: no call is awaited in them, they run
\* inside the step that ends the walk before them
StatsPhases == {"ComputingStatsBefore", "ComputingStatsAfter"}
\* the step passes through phase ph
Computes(ph) ==
  ~InTrail(ph) /\ \E k \in 1..Len(sweep.trail') : sweep.trail'[k] = ph
\* a step of the run that ends it Failed in phase ph
FailsIn(ph) == RunStep /\ sweep.failedIn = "none" /\ sweep'.failedIn = ph

\* C20 as stated: the phase order, with Failed reachable from every phase
\* except Reporting, the two stats phases included: a run that passes
\* through a stats phase could have failed there instead.
C20_FailedFromEveryPhase ==
  /\ []PhasesInOrder
  /\ [][\A ph \in StatsPhases : Computes(ph) => ENABLED FailsIn(ph)]_vars

\* C20: the phases of a run are entered in the order Fetching,
\* ComputingStatsBefore, Deleting, Refetching, ComputingStatsAfter,
\* Reporting, Done, none skipped or repeated, possibly cut short by Failed;
\* the re-fetch begins only when every stale code's delete is acknowledged;
\* Failed is reachable from Fetching, Deleting and Refetching, where the run
\* waits on the store, and from no other phase: the stats phases and
\* Reporting never fail a run; Done and Failed are terminal.
C20_PhaseOrder ==
  /\ PhasesInOrder
  /\ sweep.failedIn \in {"none", "Fetching", "Deleting", "Refetching"}
  /\ \A ph \in StatsPhases : ~ENABLED FailsIn(ph)
  /\ \A ph \in StatsPhases :
       InTrail(ph) => Last(sweep.trail) # ph

\* a run failed in Refetching, after its deletes
C20_Witness ==
  /\ sweep.trail = <<"Fetching", "ComputingStatsBefore", "Deleting", "Refetching", "Failed">>
  /\ sweep.failedIn = "Refetching"
  /\ Len(sweep.removed) = 2

\* ----- claims on notify-interest -----
\* the texts of the responses that reject a request before the send
EarlyRejections ==
  {"Method not allowed", "Missing required env vars", "CORS origin not allowed",
   "No customer object in webhook payload.", "No notify-variant tag found, ignoring.",
   "Missing required fields: variantId, email", "Variant not found.",
   "Variant not found", "Shopify API"}

\* C28: one notify-interest invocation issues at most one send request to
\* the email provider, whether the send succeeds or fails, and none when the
\* request is rejected earlier (missing fields, no notify tag, variant not
\* found); every answer of the provider, good or bad, ends the invocation.
C28_SendOnce ==
  /\ note.sends <= 1
  /\ note.answers # <<>> => note.pc = "done" /\ note.sends = 1 /\ Len(note.answers) = 1
  /\ (note.pc = "done" /\ note.reply.text \in EarlyRejections)
       => note.sends = 0 /\ note.answers = <<>>
  /\ note.sends = 1 => note.fetches = 1

\* the provider refused the one send request and the invocation failed
C28_Witness ==
  /\ note.pc = "done"
  /\ note.edition = "webhook"
  /\ note.answers = <<"httpError">>
  /\ note.sends = 1
  /\ note.reply.status = 500

\* ----- claims on the triggers -----
\* the handler of p rests at no await and has issued no call to the store
NoCallIssued(p) ==
  /\ inv[p].pc = "done"
  /\ hist[p].nReads = 0 /\ hist[p].nCreates = 0 /\ hist[p].nWrites = 0
  /\ hist[p].tries = <<>> /\ hist[p].registered = Null

\* the maintenance run has responded without a page request, a DELETE or a wait
NoSweepCallIssued ==
  /\ run.pc = "done"
  /\ sweep.trail = <<>>
  /\ sweep.walk = NoWalk /\ ~sweep.walked.ended
  /\ sweep.call = <<>> /\ ~sweep.called.ended
  /\ sweep.deletes = <<>> /\ sweep.removed = <<>>

\* C21: an invocation that hits a configuration error (SHOP, ADMIN_TOKEN or
\* PRICE_RULE_ID absent) or, for issuance, malformed input (no customer
\* payload or no customer id) is rejected before any external call: no
\* catalog read, create, write or delete is issued and no retry happens.
C21_RejectedBeforeAnyCall ==
  /\ \A p \in Invocations :
       (inv[p].pc # "idle" /\ (~hist[p].configured \/ ~hist[p].wellFormed))
         => /\ NoCallIssued(p)
            /\ inv[p].result.status \in {400, 401, 405, 500}
            /\ inv[p].result.code = Null
  /\ (run.pc # "idle" /\ ~sweep.configured)
       => /\ NoSweepCallIssued
          /\ run.result.status \in {401, 405, 500}
          /\ run.result.fields = {"error"}

\* an issuance request and a maintenance trigger were both refused for the
\* missing connection parameters, with codes in the catalog
C21_Witness ==
  /\ \E p \in Invocations :
       /\ inv[p].pc = "done"
       /\ ~hist[p].configured
       /\ inv[p].result = Failure(500, MissingEnvVars)
  /\ run.pc = "done" /\ ~sweep.configured
  /\ run.result = Rejected(500, MissingEnv)
  /\ catalog # {}

\* C22: a request that does not present the expected bearer credential
\* never starts a maintenance run, so it causes no catalog read and no
\* delete, in every configuration of the deployment.
C22_TriggerGated ==
  (run.pc # "idle" /\ ~traffic.credential) => NoSweepCallIssued

\* ----- claims on the stats -----
\* st is the stats of the code set codes
StatsOf(codes, st) ==
  /\ st.total = Len(codes)
  /\ st.used = Cardinality({k \in 1..Len(codes) : codes[k].usage_count > 0})
  /\ st.unused = Cardinality({k \in 1..Len(codes) : codes[k].usage_count = 0})
  /\ st.used + st.unused = st.total
  /\ Len(st.samples) = Min(5, st.total)
  /\ \A k \in 1..Len(st.samples) :
       /\ st.samples[k].code = codes[k].code
       /\ st.samples[k].usage_count = codes[k].usage_count
       /\ st.samples[k].created_at = codes[k].created_at

\* C23: for every code set given to the stats computation, total is the
\* number of codes, used the number with usageCount > 0, unused the number
\* with usageCount = 0, used + unused = total, and samples are the first
\* min(5, total) codes in fetch order; statsBefore is computed from the
\* initial fetch and statsAfter from the re-fetch.
C23_Stats ==
  /\ InTrail("ComputingStatsBefore") => StatsOf(sweep.fetched, run.statsBefore)
  /\ InTrail("ComputingStatsAfter") => StatsOf(sweep.refetched, run.statsAfter)
  /\ Succeeded => /\ run.result.statsBefore = run.statsBefore
                  /\ run.result.statsAfter = run.statsAfter

\* a successful run fetched more than 5 codes, 3 of them used, and re-fetched
\* fewer than 5
C23_Witness ==
  /\ Succeeded
  /\ run.result.statsBefore.total > 5
  /\ run.result.statsBefore.used = 3
  /\ Len(run.result.statsBefore.samples) = 5
  /\ run.result.statsAfter.total \in 1..4
  /\ Len(run.result.statsAfter.samples) = run.result.statsAfter.total
  /\ run.result.statsAfter.unused > 0

\* ----- claims on issuance and the retry policy -----
\* the invocation of p has failed for good
HardFailure(p) ==
  /\ inv[p].pc = "done"
  /\ inv[p].result.status = 500
  /\ inv[p].result.code = Null

\* C24: issuance never applies the backoff retry policy: a rate-limit
\* failure on the idempotency read, on a create attempt or on the annotation
\* write is not retried and no wait occurs; it fails the invocation at once
\* as a hard failure, and the only repetition inside issuance is the 3-try
\* collision loop, whose tries follow one another with no wait.
C24_NoBackoffInIssuance ==
  \A p \in Invocations :
    /\ inv[p].pc \in {"idle", "lookup", "create", "write", "done"}
    /\ hist[p].nReads <= 1 /\ hist[p].nWrites <= 1 /\ hist[p].nCreates <= MaxTries
    /\ hist[p].readClass = "rateLimited"
         => HardFailure(p) /\ hist[p].nCreates = 0 /\ hist[p].nWrites = 0
    /\ \A k \in 1..Len(hist[p].tries) :
         hist[p].tries[k] = "rateLimited"
           => /\ k = Len(hist[p].tries)
              /\ HardFailure(p)
              /\ hist[p].nWrites = 0
    /\ hist[p].writeClass = "rateLimited" => HardFailure(p)

\* a create attempt that followed a collision was rate limited and the
\* invocation failed after its two attempts
C24_Witness ==
  \E p \in Invocations :
    /\ HardFailure(p)
    /\ hist[p].tries = <<"conflict", "rateLimited">>
    /\ hist[p].nCreates = 2

\* the code c is the welcome code of no customer
Unattributed(c) == \A k \in Customers : meta[k].code # c

\* C25: side effects are never rolled back: if an issuance invocation
\* creates a code and then its annotation write fails, the invocation fails
\* while the created code stays in the catalog attributed to no customer;
\* the customer's annotation is unchanged, so a later issuance for that
\* customer, reading no code in it, goes on to create a further code.
C25_NoRollback ==
  [][\A p \in Invocations :
       /\ (inv[p].pc = "write" /\ inv'[p].pc = "done" /\ hist'[p].writeClass # "ok")
            => /\ inv'[p].result.status = 500
               /\ inv'[p].result.code = Null
               /\ inv[p].created \in catalog'
               /\ inv[p].created \in CodesOf(listing')
               /\ \A k \in Customers : meta'[k].code # inv[p].created
               /\ meta' = meta
               /\ catalog' = catalog
       /\ (inv[p].pc = "lookup" /\ hist'[p].readClass = "ok"
             /\ hist'[p].readValue = Null)
            => /\ inv'[p].pc = "create"
               /\ catalog' = catalog]_vars

\* a code created for the customer by an invocation that has ended is in
\* the catalog, the customer's annotation names no code, and another
\* invocation for the customer has created a further code
C25_Witness ==
  \E q \in Invocations :
    /\ inv[q].pc = "write"
    /\ hist[q].customer \in Customers
    /\ \A p \in Invocations \ {q} : inv[p].pc = "idle"
    /\ Cardinality(issued[hist[q].customer]) = 2
    /\ issued[hist[q].customer] \subseteq catalog
    /\ ~IsCode(meta[hist[q].customer].code)
    /\ \A c \in issued[hist[q].customer] : Unattributed(c)

\* ----- claims on the run against a store that fails at will -----
\* the pages of a listing of n codes
PagesOf(n) == IF n = 0 THEN 1 ELSE (n + PageLimit - 1) \div PageLimit
\* the codes the price rule held when the run began (only the run deletes)
InitialCodes == Len(listing) + Len(sweep.removed)

\* the requests and waits of a run are bounded by the page count, the
\* number of stale codes and the retry budget
C26_Bounds ==
  /\ Len(traffic.pages) <= 2 * (DefaultRetries + 1) * PagesOf(InitialCodes)
  /\ Len(sweep.deletes) <= (DefaultRetries + 1) * Len(StaleFetched)
  /\ Len(traffic.waits) <= DefaultRetries * (2 + Len(StaleFetched))

\* C26: every maintenance run terminates in Done or Failed, provided every
\* external call eventually returns and every page chain is finite: the
\* number of page requests, delete requests and waits of one run is bounded
\* by a function of the page count, the number of stale codes and the retry
\* budget.
C26_Termination ==
  /\ []C26_Bounds
  /\ (run.pc \notin {"idle", "done"})
       ~> (run.pc = "done" /\ sweep.trail # <<>>
             /\ Last(sweep.trail) \in {"Done", "Failed"})

\* a run ended Done after 12 page requests, 8 DELETE requests and 12 waits:
\* every call of it was rate limited three times
C26_Witness ==
  /\ run.pc = "done" /\ sweep.trail # <<>> /\ Last(sweep.trail) = "Done"
  /\ Len(traffic.pages) = 12
  /\ Len(sweep.deletes) = 8
  /\ Len(traffic.waits) = 12

\* the page requests of one walk stage the store answered with a rate limit
RateLimitedIn(stage) ==
  Len(SelectSeq(traffic.pages,
                LAMBDA e : e.stage = stage /\ e.class = "rateLimited"))
\* the page requests of one walk stage whose failure withRetry took for a
\* rate limit: those the store rate limited and those whose text quotes 429
RetriedIn(stage) ==
  Len(SelectSeq(traffic.pages,
                LAMBDA e : e.stage = stage /\ e.class \in {"rateLimited", "quotes429"}))
NoDuplicates(codes) == Cardinality({codes[k].id : k \in 1..Len(codes)}) = Len(codes)

\* C27: the walker reaches the store through the retry policy: a rate-limit
\* failure on any page request of a bulk read, first page or later, is
\* retried within the budget instead of failing the run, and the set a read
\* returns holds each page's items exactly once, with nothing left over from
\* an attempt that was cut short.
C27_WalkerThroughRetry ==
  /\ (traffic.pages # <<>> /\ Last(traffic.pages).class = "rateLimited") =>
        /\ run.pc \in {"sleep", "page", "done"}
        /\ (run.pc = "done")
             = (RetriedIn(Last(traffic.pages).stage) = DefaultRetries + 1)
        /\ RetriedIn(Last(traffic.pages).stage) <= DefaultRetries + 1
  /\ sweep.walked.ended =>
        /\ sweep.walked.result = Flatten(sweep.walked.pages)
        /\ NoDuplicates(sweep.walked.result)
  /\ InTrail("ComputingStatsBefore") =>
        /\ Len(sweep.fetched) = InitialCodes
        /\ NoDuplicates(sweep.fetched)
        /\ CodesOf(listing) \subseteq CodesOf(sweep.fetched)
  /\ InTrail("ComputingStatsAfter") => sweep.refetched = listing

\* the initial read was rate limited on its first page and on its second
\* page, returned the four codes all the same, and the run ended Done
C27_Witness ==
  /\ run.pc = "done" /\ sweep.trail # <<>> /\ Last(sweep.trail) = "Done"
  /\ Len(sweep.fetched) = 4
  /\ \E i, j \in 1..Len(traffic.pages) :
       /\ traffic.pages[i] = [stage |-> "fetch", path |-> FirstPath,
                              class |-> "rateLimited"]
       /\ traffic.pages[j] = [stage |-> "fetch", path |-> PagePath(2),
                              class |-> "rateLimited"]

\* the page requests of one walk stage that met a failure other than a rate
\* limit
BrokenIn(stage) ==
  Len(SelectSeq(traffic.pages,
                LAMBDA e : e.stage = stage /\ e.class \in {"generic", "quotes429"}))
\* the initial read threw: a page of it failed otherwise than by rate limit,
\* or its retries were used up
InitialReadThrew ==
  BrokenIn("fetch") > 0 \/ RateLimitedIn("fetch") = DefaultRetries + 1

C29_State ==
  /\ sweep.deletes # <<>> =>
        /\ InTrail("ComputingStatsBefore")
        /\ ~InitialReadThrew
        /\ sweep.fetched = sweep.walked.result \/ InTrail("ComputingStatsAfter")
  /\ InitialReadThrew =>
        /\ run.pc = "done" /\ sweep.failedIn = "Fetching"
        /\ Last(sweep.trail) = "Failed"
        /\ sweep.deletes = <<>> /\ sweep.removed = <<>>
        /\ run.codes = <<>> /\ run.oldCodes = <<>> /\ sweep.fetched = <<>>
        /\ run.result = SweepFailure(sweep.called.lastError, sweep.triggeredAt)
        /\ run.result.fields = {"error", "timestamp"}
  /\ sweep.failedIn = "Fetching" => InitialReadThrew

\* C29: a run issues no delete unless its initial read has returned: when a
\* page request of the initial walk fails otherwise than by rate limit, or
\* the rate-limit retries are used up, the items of the pages already read
\* are dropped, the run ends Failed, and the price rule's codes are left as
\* they were.
C29_NoDeleteBeforeFetch ==
  /\ []C29_State
  /\ [][run.stage \in {"none", "fetch"} =>
          listing' = listing /\ catalog' = catalog]_vars

\* C30: when a page request of fetchAllDiscountCodes is rate limited at a
\* page after the first, the retry starts the walk again from the first page
\* with an empty accumulator, and the budget of 3 retries is shared by the
\* whole walk, not granted per page: the walk fails once 4 of its attempts
\* were rate limited, wherever in the walk they fell.
C30_RetryRestartsWalk ==
  /\ \A i \in 1..(Len(traffic.pages) - 1) :
       (traffic.pages[i].class \in {"rateLimited", "quotes429"}
          /\ traffic.pages[i + 1].stage = traffic.pages[i].stage)
         => traffic.pages[i + 1].path = FirstPath
  /\ (traffic.pages # <<>> /\ Last(traffic.pages).class = "rateLimited"
       /\ run.pc = "page")
       => run.acc = <<>> /\ run.nextURL = FirstPath
  /\ (run.stage \in {"fetch", "refetch"} /\ run.pc \in {"page", "sleep"}) =>
        /\ run.retries + RetriedIn(run.stage)
             = DefaultRetries + (IF run.pc = "sleep" THEN 1 ELSE 0)
        /\ run.delay = DefaultDelay * Pow2(DefaultRetries - run.retries)
  /\ \A stage \in {"fetch", "refetch"} :
       /\ RateLimitedIn(stage) <= RetriedIn(stage)
       /\ RetriedIn(stage) <= DefaultRetries + 1
       /\ (RetriedIn(stage) = DefaultRetries + 1) =>
            /\ run.pc = "done" /\ run.result.status = 500
            /\ sweep.failedIn = (IF stage = "fetch" THEN "Fetching" ELSE "Refetching")
            /\ Last(traffic.pages).stage = stage
            /\ Last(traffic.pages).class \in {"rateLimited", "quotes429"}

\* the initial walk was rate limited twice on its first page and twice on
\* its second, the first page was requested again after each, and the run
\* failed on the fourth
C30_Witness ==
  /\ sweep.failedIn = "Fetching"
  /\ [k \in 1..Len(traffic.pages) |-> <<traffic.pages[k].path, traffic.pages[k].class>>]
       = << <<FirstPath, "rateLimited">>, <<FirstPath, "ok">>,
            <<PagePath(2), "rateLimited">>, <<FirstPath, "rateLimited">>,
            <<FirstPath, "ok">>, <<PagePath(2), "rateLimited">> >>

\* ----- claims on the empty annotation and on the fresh code -----
\* C35: when the idempotency lookup succeeds and finds the welcome-code
\* annotation present with an empty value, issuance treats the customer as
\* having no code: it goes on to the creation loop and, on success,
\* overwrites the annotation with the new code and returns reused = false.
C35_EmptyCodeIsNoCode ==
  \A p \in Invocations :
    hist[p].readEmpty =>
      /\ inv[p].pc \in {"create", "write", "done"}
      /\ inv[p].pc \in {"create", "write"} => inv[p].existing = ""
      /\ inv[p].pc \in {"write", "done"} => hist[p].nCreates >= 1
      /\ (inv[p].pc = "done" /\ inv[p].result.status = 200) =>
            /\ inv[p].result = Success(hist[p].registered, FALSE)
            /\ IsCode(inv[p].result.code)
            /\ hist[p].nWrites = 1 /\ hist[p].writeClass = "ok"
            /\ meta[hist[p].customer].code = inv[p].result.code

\* an invocation read an empty annotation, created a code, wrote it over
\* the empty value and answered with it, reused = false
C35_Witness ==
  \E p \in Invocations :
    /\ hist[p].readEmpty
    /\ inv[p].pc = "done"
    /\ inv[p].result.status = 200 /\ ~inv[p].result.reused
    /\ meta[hist[p].customer].code = hist[p].registered

\* no other invocation is serving the customer of invocation p
ServedAlone(p) ==
  \A q \in Invocations \ {p} : hist[q].customer # hist[p].customer

\* C34: when an invocation returns success with reused = false and no other
\* invocation for the customer runs beside it, then as it returns the
\* customer's welcome-code annotation equals the returned code, the returned
\* code is the one the store registered in the successful create attempt,
\* and the flags welcome_discount_used and welcome_email_sent were set to
\* false in the same write.
C34_FreshCodeRecorded ==
  \A p \in Invocations :
    (/\ inv[p].pc = "done" /\ inv[p].result.status = 200
     /\ ~inv[p].result.reused /\ ServedAlone(p)) =>
      /\ hist[p].customer \in Customers
      /\ meta[hist[p].customer] = WelcomeMetafields(inv[p].result.code)
      /\ meta[hist[p].customer].used = "false"
      /\ meta[hist[p].customer].sent = "false"
      /\ inv[p].result.code = hist[p].registered
      /\ inv[p].result.code \in catalog
      /\ inv[p].result.code \in issued[hist[p].customer]
      /\ hist[p].tries # <<>> /\ Last(hist[p].tries) = "ok"
      /\ hist[p].nWrites = 1 /\ hist[p].writeClass = "ok"

\* an invocation served alone returned a fresh code after one collision,
\* and the customer's record holds the code and both flags
C34_Witness ==
  \E p \in Invocations :
    /\ inv[p].pc = "done" /\ inv[p].result.status = 200
    /\ ~inv[p].result.reused /\ ServedAlone(p)
    /\ hist[p].tries = <<"conflict", "ok">>
    /\ meta[hist[p].customer] = WelcomeMetafields(hist[p].registered)

\* ----- claims on issuance beside a maintenance run -----
\* the codes the re-fetch returned that the initial fetch had not: the
\* codes created between the two
CreatedBetween ==
  {k \in 1..Len(sweep.refetched) :
     sweep.refetched[k].id \notin {sweep.fetched[j].id : j \in 1..Len(sweep.fetched)}}
\* the totals of a successful run: what was there, less what was deleted,
\* plus what was created in between
TotalsAgree ==
  /\ run.result.statsAfter.total
       = run.result.statsBefore.total - run.result.deleted + Cardinality(CreatedBetween)
  /\ run.result.statsBefore.total = Len(sweep.fetched)
  /\ run.result.statsAfter.total = Len(sweep.refetched)
  /\ run.result.deleted = Len(sweep.removed)
  /\ (CreatedBetween = {})
       = (run.result.statsAfter.total
            = run.result.statsBefore.total - run.result.deleted)
  /\ (CreatedBetween # {})
       = (run.result.statsAfter.total
            > run.result.statsBefore.total - run.result.deleted)

\* C31 as stated: in a successful run statsAfter.total = statsBefore.total
\* - deleted when nothing else changes the price rule and exceeds it when a
\* code is created between the two fetches, and no code of statsAfter's
\* code set is stale when statsAfter is computed.
C31_StatsConsistent ==
  Succeeded =>
    /\ TotalsAgree
    /\ \A k \in 1..Len(sweep.refetched) :
         ~(clock - sweep.refetched[k].created_at > DAYS_TO_KEEP)

\* C31 (amended): in a successful run statsAfter.total = statsBefore.total
\* - deleted when nothing else changes the price rule and exceeds it when a
\* code is created between the two fetches, and no code of statsAfter's
\* code set was stale at the run's age test; a code whose age passes the
\* threshold after the age test is still in statsAfter's code set.
C31_StatsAfterDeletion ==
  Succeeded =>
    /\ TotalsAgree
    /\ \A k \in 1..Len(sweep.refetched) :
         ~(sweep.filterNow - sweep.refetched[k].created_at > DAYS_TO_KEEP)

\* a run deleted the stale code while an issuance created one and a day
\* passed: statsAfter counts the new code and the code that turned stale
C31_Witness ==
  /\ Succeeded
  /\ run.result.statsBefore.total = 2 /\ run.result.deleted = 1
  /\ run.result.statsAfter.total = 2
  /\ \E k \in CreatedBetween : \E c \in Customers : sweep.refetched[k].code \in issued[c]
  /\ \E k \in 1..Len(sweep.refetched) :
       /\ clock - sweep.refetched[k].created_at > DAYS_TO_KEEP
       /\ ~(sweep.filterNow - sweep.refetched[k].created_at > DAYS_TO_KEEP)

\* an issuance that read a recorded code answers with it, reused, and
\* creates and writes nothing, whether the price rule still holds the code
ReusedAsRecorded ==
  \A p \in Invocations :
    (inv[p].pc = "done" /\ hist[p].readValue # Null) =>
      /\ inv[p].result = Success(hist[p].readValue, TRUE)
      /\ hist[p].nCreates = 0 /\ hist[p].nWrites = 0

\* C32: the maintenance run never writes a customer's welcome-code
\* annotation: after a run deletes a customer's stale code the customer's
\* welcomeCode still names the deleted code, and a later issuance for the
\* customer returns the deleted code with reused = true and creates no
\* replacement, so a recorded welcomeCode names a code of the price rule
\* only until the code's age passes the threshold.
C32_SweepLeavesAnnotations ==
  /\ []ReusedAsRecorded
  /\ [][(run' # run \/ sweep' # sweep) => meta' = meta]_vars
  /\ [][\A c \in Customers :
          (meta[c].code \in catalog /\ meta[c].code \notin catalog')
            => /\ run.pc = "delete" /\ Len(sweep'.removed) = Len(sweep.removed) + 1
               /\ meta'[c].code = meta[c].code]_vars

\* the run deleted the code the customer had been issued, and an issuance
\* that came after it returned that code, reused, with no code created
C32_Witness ==
  /\ Succeeded /\ sweep.removed = <<Shelf[1].id>>
  /\ \E p \in Invocations :
       /\ inv[p].pc = "done"
       /\ inv[p].result = Success(Shelf[1].code, TRUE)
       /\ hist[p].nCreates = 0
       /\ meta[hist[p].customer].code = Shelf[1].code
       /\ Shelf[1].code \notin catalog

\* ----- claims on overlapping maintenance runs -----
\* a run that failed because the body of the store's answer to a DELETE
\* could not be read: the store had removed the code
Unreadable(loc) ==
  loc.pc = "done" /\ loc.result = SweepFailure(UnexpectedEnd, loc.timestamp)
\* the ids the store removed for a run: deletes go in the order of its stale
\* codes, one at a time, and the run counts those it could read the answer of
RemovedBy(loc) ==
  {loc.oldCodes[j].id : j \in 1..(IF Unreadable(loc) THEN loc.k ELSE loc.deleted)}
\* the failure of a DELETE the store answered with not-found
NotFoundFailure(loc) == SweepFailure(ErrorMessage(Http(T404, <<>>)), loc.timestamp)
\* a run that failed did so on the DELETE of a code the other run had
\* removed (not-found, not retried, the stale codes after it never
\* requested) or on an answer it could not read
AbsentDeleteFails(loc, other) ==
  (loc.pc = "done" /\ loc.result.fields = {"error", "timestamp"}) =>
    /\ loc.stage = "delete"
    /\ loc.k \in 1..Len(loc.oldCodes)
    /\ loc.oldCodes[loc.k].id \notin ListedIds
    /\ loc.deleted = loc.k - 1
    /\ loc.retries = DefaultRetries /\ loc.delay = DefaultDelay
    /\ IF loc.oldCodes[loc.k].id \in RemovedBy(other)
         THEN loc.result = NotFoundFailure(loc)
         ELSE Unreadable(loc)

\* C33: deletion does not tolerate a code that is already gone: when two
\* runs overlap, the DELETE a run issues for a code no longer under the
\* price rule fails with not-found, is not retried and ends that run Failed
\* with its remaining stale codes unrequested; in every interleaving each
\* code is removed at most once.
C33_AbsentCodeFailsRun ==
  /\ AbsentDeleteFails(run, rival)
  /\ AbsentDeleteFails(rival, run)
  /\ RemovedBy(run) \cap RemovedBy(rival) = {}
  /\ (RemovedBy(run) \cup RemovedBy(rival)) \cap ListedIds = {}
  /\ Len(listing) + Cardinality(RemovedBy(run)) + Cardinality(RemovedBy(rival))
       = Len(Inventory)
  /\ RemovedBy(run) = {sweep.removed[j] : j \in 1..Len(sweep.removed)}
  /\ Cardinality(RemovedBy(run)) = Len(sweep.removed)
  /\ sweep.failedIn # "none" =>
        /\ sweep.failedIn = "Deleting"
        /\ Len(sweep.deletes) = run.k
        /\ TriesOf(sweep.called.log)
             = IF Unreadable(run) THEN <<Try("unparsable")>> ELSE <<Try("notFound")>>
        /\ WaitsOf(sweep.called.log) = <<>>

\* the run deleted its first stale code, found the second one removed by
\* the other run, and failed with the third still listed
C33_Witness ==
  /\ run.pc = "done" /\ run.result = NotFoundFailure(run)
  /\ Len(run.oldCodes) = 3 /\ run.k = 2 /\ run.deleted = 1
  /\ run.oldCodes[2].id \in RemovedBy(rival)
  /\ run.oldCodes[3].id \in ListedIds
====
